---- MODULE Spec2Model ----
(***************************************************************************)
(* Model of sensors/engagement_analyzer.py: the per-frame face tracking    *)
(* loop, the expiry sweep with the engagement evaluation, and the          *)
(* periodic merge of finalized records into engagement_data.json.          *)
(*                                                                         *)
(* Time is counted in tenths of a second (time.time() readings are         *)
(* floats; every threshold of the program is a multiple of 0.1 s).         *)
(* Pixel coordinates are integers, as dlib returns them.                   *)
(***************************************************************************)
EXTENDS Integers, Sequences, FiniteSets, TLC

\* ---------------------------------------------------------------- constants
\* engagement_analyzer.py:28-36 (seconds are written in tenths of a second)
ENGAGEMENT_THRESHOLD == 15
STABILITY_THRESHOLD == 80
MIN_FACE_AREA == 2000
FACE_Y_THRESHOLD_PERCENT == 10
TRACKING_WINDOW == 15
MIN_FACE_DIMENSION == 20
DATA_SAVE_INTERVAL == 30
\* the literal 5 (seconds) of the expiry test, line 354
EXPIRY_TIMEOUT == 50
\* tenths of a second in one second: strftime('%Y-%m-%d %H:%M:%S') keeps whole seconds
TENTHS_PER_SECOND == 10

\* ---------------------------------------------------------------- bounds
\* frame.shape of the camera
FrameWidth == 640
FrameHeight == 480
\* the model stops reading frames MaxTime tenths of a second after the start
MaxTime == 160
\* at most MaxDetections faces in one frame
MaxDetections == 2
\* at most MaxRestarts restarts of the process
MaxRestarts == 1

\* time between two frames: at the engagement threshold and just over the
\* expiry timeout; just under the save interval and just over the expiry
\* timeout; and time spent classifying one face
FrameGaps == {15, 51}
SlowGaps == {29, 51}
ClassifyDelays == {0, 1}

\* what dlib may return: rectangles <<left, top, right, bottom>>, named by
\* the x of their centre; Face100Wide has the centre of Face100, Face180 is
\* exactly STABILITY_THRESHOLD from Face100, FaceEdge is cut by the frame
Face100 == <<70, 100, 130, 160>>
Face100Wide == <<60, 90, 140, 170>>
Face160 == <<130, 100, 190, 160>>
Face180 == <<150, 100, 210, 160>>
Face220 == <<190, 100, 250, 160>>
FaceEdge == <<-20, 100, 15, 160>>
RawFaces == {Face100, Face100Wide, Face160, Face180, Face220, FaceEdge}
\* two faces too far apart to be taken for one another, and a filtered one
FarFaces == {Face100, Face220, FaceEdge}

\* what process_face may return: <<age, gender, emotion>>; the last is the
\* default triple of a failed classification
Classified == <<30, "M", "Happy">>
ClassifiedFemale == <<30, "F", "Happy">>
ClassifiedForty == <<40, "F", "Sad">>
Defaulted == <<0, "Unknown", "Neutral">>
Classifications == {Classified}

\* line 25
emotion_classes == {"Angry", "Fear", "Happy", "Neutral", "Sad", "Surprise"}

\* ---------------------------------------------------------------- helpers
Min(a, b) == IF a < b THEN a ELSE b
Max(a, b) == IF a > b THEN a ELSE b

Range(s) == {s[i] : i \in 1..Len(s)}

\* all sequences over S of length 0..n
SeqsUpTo(S, n) == UNION {[1..k -> S] : k \in 0..n}

\* Python's None for `closest`; a bounding-box tuple is never empty, so
\* `if closest:` is exactly closest # None
None == <<>>

\* ((x1 + x2) // 2, (y1 + y2) // 2)
Centroid(box) == <<(box[1] + box[3]) \div 2, (box[2] + box[4]) \div 2>>

\* dx**2 + dy**2; np.sqrt is strictly increasing on these integers, so the
\* program's comparisons of distances are comparisons of the squares
Dist2(p, q) == (p[1] - q[1]) * (p[1] - q[1]) + (p[2] - q[2]) * (p[2] - q[2])

\* max(0, d.left()), max(0, d.top()), min(width, d.right()), min(height, d.bottom())
ClampBox(d) == <<Max(0, d[1]), Max(0, d[2]), Min(FrameWidth, d[3]), Min(FrameHeight, d[4])>>

\* Filtered without the test of the area
FilteredByDimension(b) ==
    \/ (b[3] - b[1]) < MIN_FACE_DIMENSION
    \/ (b[4] - b[2]) < MIN_FACE_DIMENSION
    \/ b[2] * 100 < FrameHeight * FACE_Y_THRESHOLD_PERCENT

\* the filters of lines 285-292: TRUE when the detection is skipped
Filtered(b) ==
    \/ (b[3] - b[1]) < MIN_FACE_DIMENSION
    \/ (b[4] - b[2]) < MIN_FACE_DIMENSION
    \/ (b[3] - b[1]) * (b[4] - b[2]) < MIN_FACE_AREA
    \/ b[2] * 100 < FrameHeight * FACE_Y_THRESHOLD_PERCENT

\* a deque without maxlen
DequeAppendUnbounded(q, v) == Append(q, v)

\* deque(maxlen=TRACKING_WINDOW).append
DequeAppend(q, v) ==
    IF Len(q) >= TRACKING_WINDOW THEN Append(Tail(q), v) ELSE Append(q, v)

\* ---------------------------------------------------------------- the dict
\* active_faces is a Python dict: insertion-ordered, keyed by bounding box.
\* It is a sequence of entries [fid |-> box, data |-> face_data].
Keys(faces) == {faces[i].fid : i \in 1..Len(faces)}

IndexOf(faces, fid) == CHOOSE i \in 1..Len(faces) : faces[i].fid = fid

DictGet(faces, fid) == faces[IndexOf(faces, fid)].data

\* active_faces.pop(fid)
DictPop(faces, fid) ==
    LET i == IndexOf(faces, fid)
    IN  SubSeq(faces, 1, i - 1) \o SubSeq(faces, i + 1, Len(faces))

\* active_faces[fid] = data: an existing key keeps its place, a new key goes last
DictSet(faces, fid, data) ==
    IF fid \in Keys(faces)
    THEN [faces EXCEPT ![IndexOf(faces, fid)] = [fid |-> fid, data |-> data]]
    ELSE Append(faces, [fid |-> fid, data |-> data])

\* ---------------------------------------------------------------- matching
\* ScanFaces that also takes a face at the distance of the candidate
RECURSIVE ScanFacesInclusive(_, _, _, _, _)
ScanFacesInclusive(faces, i, centroid, min_d2, closest) ==
    IF i > Len(faces) THEN closest
    ELSE LET d2 == Dist2(centroid, Centroid(faces[i].fid))
         IN  IF d2 <= min_d2
             THEN ScanFacesInclusive(faces, i + 1, centroid, d2, faces[i].fid)
             ELSE ScanFacesInclusive(faces, i + 1, centroid, min_d2, closest)

\* lines 304-317: the scan for the closest tracked face; min_dist starts at
\* the threshold and only a strictly smaller distance replaces the candidate
RECURSIVE ScanFaces(_, _, _, _, _)
ScanFaces(faces, i, centroid, min_d2, closest) ==
    IF i > Len(faces) THEN closest
    ELSE LET d2 == Dist2(centroid, Centroid(faces[i].fid))
         IN  IF d2 < min_d2
             THEN ScanFaces(faces, i + 1, centroid, d2, faces[i].fid)
             ELSE ScanFaces(faces, i + 1, centroid, min_d2, closest)

\* ClosestFace that takes the first tracked face within the threshold
ClosestFaceFirstFit(faces, centroid) ==
    LET near == {i \in 1..Len(faces) :
                    Dist2(centroid, Centroid(faces[i].fid))
                        < STABILITY_THRESHOLD * STABILITY_THRESHOLD}
    IN  IF near = {} THEN None
        ELSE faces[CHOOSE i \in near : \A j \in near : i <= j].fid

ClosestFace(faces, centroid) ==
    ScanFaces(faces, 1, centroid, STABILITY_THRESHOLD * STABILITY_THRESHOLD, None)

\* UpdateFaceData that starts the face anew where it is seen
UpdateFaceDataMoved(old_data, new_age, new_gender, new_emotion, new_centroid, now) ==
    [entry_time |-> old_data.entry_time,
     exit_time |-> now,
     age_queue |-> DequeAppend(old_data.age_queue, new_age),
     gender_queue |-> DequeAppend(old_data.gender_queue, new_gender),
     emotion_queue |-> DequeAppend(old_data.emotion_queue, new_emotion),
     initial_centroid |-> new_centroid,
     last_centroid |-> new_centroid]

\* UpdateFaceData that refreshes the entry time instead of the exit time
UpdateFaceDataEntered(old_data, new_age, new_gender, new_emotion, new_centroid, now) ==
    [entry_time |-> now,
     exit_time |-> old_data.exit_time,
     age_queue |-> DequeAppend(old_data.age_queue, new_age),
     gender_queue |-> DequeAppend(old_data.gender_queue, new_gender),
     emotion_queue |-> DequeAppend(old_data.emotion_queue, new_emotion),
     initial_centroid |-> old_data.initial_centroid,
     last_centroid |-> new_centroid]

\* lines 102-116
UpdateFaceData(old_data, new_age, new_gender, new_emotion, new_centroid, now) ==
    [entry_time |-> old_data.entry_time,
     exit_time |-> now,
     age_queue |-> DequeAppend(old_data.age_queue, new_age),
     gender_queue |-> DequeAppend(old_data.gender_queue, new_gender),
     emotion_queue |-> DequeAppend(old_data.emotion_queue, new_emotion),
     initial_centroid |-> old_data.initial_centroid,
     last_centroid |-> new_centroid]

\* NewFaceData that appends the first age twice
NewFaceDataAgeTwice(age, gender, emotion, centroid, now) ==
    [entry_time |-> now,
     exit_time |-> now,
     age_queue |-> DequeAppend(DequeAppend(<<>>, age), age),
     gender_queue |-> DequeAppend(<<>>, gender),
     emotion_queue |-> DequeAppend(<<>>, emotion),
     initial_centroid |-> centroid,
     last_centroid |-> centroid]

\* lines 324-343
NewFaceData(age, gender, emotion, centroid, now) ==
    [entry_time |-> now,
     exit_time |-> now,
     age_queue |-> DequeAppend(<<>>, age),
     gender_queue |-> DequeAppend(<<>>, gender),
     emotion_queue |-> DequeAppend(<<>>, emotion),
     initial_centroid |-> centroid,
     last_centroid |-> centroid]

\* ---------------------------------------------------------------- float64
\* The doubles weighted_gender_vote and the engagement score compute with
\* are 0 and values from 2^-4 up to 2^9; each is a whole number of units of
\* 2^-56. A double is that number, in base LimbBase, least significant limb
\* first. Every operation is the exact one followed by the rounding of
\* IEEE 754 (to nearest, ties to even), as numpy and Python compute it.
LimbBits == 14
LimbBase == 2^LimbBits
Limbs == 6
UnitBits == 56
Mantissa == 53

Small(k) == [i \in 1..Limbs |-> IF i = 1 THEN k ELSE 0]

Pow2(k) == [i \in 1..Limbs |-> IF i = k \div LimbBits + 1 THEN 2^(k % LimbBits) ELSE 0]

RECURSIVE AddFrom(_, _, _, _)
AddFrom(a, b, i, carry) ==
    IF i > Limbs THEN <<>>
    ELSE LET t == a[i] + b[i] + carry
         IN  <<t % LimbBase>> \o AddFrom(a, b, i + 1, t \div LimbBase)

BigAdd(a, b) == AddFrom(a, b, 1, 0)

RECURSIVE MulFrom(_, _, _, _)
MulFrom(a, k, i, carry) ==
    IF i > Limbs THEN <<>>
    ELSE LET t == a[i] * k + carry
         IN  <<t % LimbBase>> \o MulFrom(a, k, i + 1, t \div LimbBase)

\* a times the small number k
BigMul(a, k) == MulFrom(a, k, 1, 0)

\* the remainder of the limbs i.. of a, divided by d
RECURSIVE RemAbove(_, _, _)
RemAbove(a, d, i) ==
    IF i > Limbs THEN 0 ELSE (RemAbove(a, d, i + 1) * LimbBase + a[i]) % d

\* a divided by the small number d, rounded down
BigDiv(a, d) ==
    [i \in 1..Limbs |-> (RemAbove(a, d, i + 1) * LimbBase + a[i]) \div d]

BigLess(a, b) ==
    LET differ == {i \in 1..Limbs : a[i] # b[i]}
    IN  /\ differ # {}
        /\ LET top == CHOOSE i \in differ : \A j \in differ : j <= i
           IN  a[top] < b[top]

\* the number of bits of a
BitLength(a) ==
    LET used == {i \in 1..Limbs : a[i] # 0}
    IN  IF used = {} THEN 0
        ELSE LET top == CHOOSE i \in used : \A j \in used : j <= i
                 bits == CHOOSE j \in 1..LimbBits : 2^(j - 1) <= a[top] /\ a[top] < 2^j
             IN  LimbBits * (top - 1) + bits

\* the exact value a, plus a fraction of a unit if sticky, rounded to a
\* double: to Mantissa significant bits, to nearest, ties to even
RoundSticky(a, sticky) ==
    LET extra == BitLength(a) - Mantissa
    IN  IF extra <= 0 THEN a
        ELSE LET unit == 2^extra
                 rest == (a[1] + LimbBase * a[2]) % unit
                 odd == (a[extra \div LimbBits + 1] \div 2^(extra % LimbBits)) % 2 = 1
                 down == [a EXCEPT ![1] = a[1] - (rest % LimbBase),
                                   ![2] = a[2] - (rest \div LimbBase)]
             IN  IF \/ 2 * rest > unit
                    \/ 2 * rest = unit /\ (sticky \/ odd)
                 THEN BigAdd(down, Pow2(extra))
                 ELSE down

RoundToDouble(a) == RoundSticky(a, FALSE)

FloatZero == Small(0)
FloatOne == Pow2(UnitBits)
FloatTwo == Pow2(UnitBits + 1)

FloatAdd(a, b) == RoundToDouble(BigAdd(a, b))

\* the double a times the whole number k
FloatMul(a, k) == RoundToDouble(BigMul(a, k))

\* 1.0 / d for a whole number d from 1 to 2^4: the quotient has its first
\* bit at 2^-k, where 2^(k-1) < d <= 2^k
FloatInverse(d) ==
    LET k == CHOOSE j \in 0..4 : d <= 2^j /\ (j = 0 \/ 2^(j - 1) < d)
        one == Pow2(Mantissa - 1 + k)
        quotient == BigDiv(one, d)
        rest == RemAbove(one, d, 1)
        odd == quotient[1] % 2 = 1
        nearest == IF 2 * rest > d \/ (2 * rest = d /\ odd)
                   THEN BigAdd(quotient, Small(1))
                   ELSE quotient
    IN  BigMul(nearest, 2^(UnitBits - (Mantissa - 1) - k))

\* the double a divided by the whole number d, 2 <= d <= 100, for a
\* quotient of 2^-4 or more: the exact quotient in units 2^GuardBits times
\* finer, rounded
GuardBits == 8

FloatDiv(a, d) ==
    LET fine == BigMul(a, 2^GuardBits)
        quotient == BigDiv(fine, d)
        rest == RemAbove(fine, d, 1)
    IN  BigDiv(RoundSticky(quotient, rest # 0), 2^GuardBits)

\* float(k) for a whole number k
FloatWhole(k) == BigMul(FloatOne, k)

\* int(a): the whole part of the double a
Truncate(a) ==
    LET first == UnitBits \div LimbBits + 1
    IN  a[first] + LimbBase * a[first + 1]

\* the double nearest to k / per, as float("2.57") is for k = 257, per = 100
Decimal(k, per) == FloatDiv(FloatWhole(k), per)

\* ---------------------------------------------------------------- evaluation
\* calculate_engagement with `or` for `and`
CalculateEngagementEither(face_data) ==
    LET duration == face_data.exit_time - face_data.entry_time
        movement2 == Dist2(face_data.last_centroid, face_data.initial_centroid)
    IN  \/ duration >= ENGAGEMENT_THRESHOLD
        \/ movement2 <= STABILITY_THRESHOLD * STABILITY_THRESHOLD

\* lines 61-73; duration in tenths of a second, movement compared by squares
CalculateEngagement(face_data) ==
    LET duration == face_data.exit_time - face_data.entry_time
        movement2 == Dist2(face_data.last_centroid, face_data.initial_centroid)
    IN  /\ duration >= ENGAGEMENT_THRESHOLD
        /\ movement2 <= STABILITY_THRESHOLD * STABILITY_THRESHOLD

\* datetime.fromtimestamp(t).strftime('%Y-%m-%d %H:%M:%S'): the fraction of
\* the second is dropped; the string is modelled by the number of the second
FormatTime(t) == t \div TENTHS_PER_SECOND

RECURSIVE GCD(_, _)
GCD(a, b) == IF b = 0 THEN a ELSE GCD(b, a % b)

\* a float that is a quotient of two integers, kept as a reduced fraction
Frac(n, d) == LET g == GCD(n, d) IN <<n \div g, d \div g>>

\* insertion of v into the sorted sequence s
RECURSIVE Insert(_, _)
Insert(s, v) ==
    IF s = <<>> THEN <<v>>
    ELSE IF v <= Head(s) THEN <<v>> \o s
    ELSE <<Head(s)>> \o Insert(Tail(s), v)

RECURSIVE Sorted(_)
Sorted(q) == IF q = <<>> THEN <<>> ELSE Insert(Sorted(Tail(q)), Head(q))

\* Median with the upper of the two middle values for a window of even length
MedianUpper(q) ==
    LET s == Sorted(q)
        n == Len(s)
    IN  Frac(s[n \div 2 + 1], 1)

\* float(np.median(list(q))) of a non-empty window
Median(q) ==
    LET s == Sorted(q)
        n == Len(s)
    IN  IF n % 2 = 1 THEN Frac(s[(n + 1) \div 2], 1)
        ELSE Frac(s[n \div 2] + s[n \div 2 + 1], 2)

CountOf(q, v) == Cardinality({i \in 1..Len(q) : q[i] = v})

\* Counter(q).most_common(1)[0][0]: the most frequent value, the one met
\* first among equally frequent ones
MostCommon(q) ==
    LET i == CHOOSE k \in 1..Len(q) :
                 /\ \A j \in 1..Len(q) : CountOf(q, q[j]) <= CountOf(q, q[k])
                 /\ \A j \in 1..(k - 1) : CountOf(q, q[j]) < CountOf(q, q[k])
    IN  q[i]

\* EngagementScoreOf without the division by 10
EngagementScoreUndivided(duration) ==
    Min(100, Truncate(FloatMul(duration, 100)))

\* line 368: min(100, int((duration/10)*100)) for the double duration
EngagementScoreOf(duration) ==
    Min(100, Truncate(FloatMul(FloatDiv(duration, 10), 100)))

\* the score of a duration of so many tenths of a second
EngagementScore(duration) == EngagementScoreOf(Decimal(duration, TENTHS_PER_SECOND))

\* lines 360-369
MakeRecord(data) ==
    LET duration == data.exit_time - data.entry_time
    IN  [entry |-> FormatTime(data.entry_time),
         exit |-> FormatTime(data.exit_time),
         duration |-> duration,
         age |-> Median(data.age_queue),
         gender |-> MostCommon(data.gender_queue),
         emotion |-> MostCommon(data.emotion_queue),
         engagement_score |-> EngagementScore(duration)]

\* IsExpired with twice the timeout
IsExpiredLate(faces, fid, seen, now) ==
    /\ fid \notin Range(seen)
    /\ now - DictGet(faces, fid).exit_time > 2 * EXPIRY_TIMEOUT

\* IsExpired with >= for >
IsExpiredInclusive(faces, fid, seen, now) ==
    /\ fid \notin Range(seen)
    /\ now - DictGet(faces, fid).exit_time >= EXPIRY_TIMEOUT

\* lines 352-354: is the tracked face fid expired in this frame
IsExpired(faces, fid, seen, now) ==
    /\ fid \notin Range(seen)
    /\ now - DictGet(faces, fid).exit_time > EXPIRY_TIMEOUT

Expired(faces, seen, now) ==
    SelectSeq([i \in 1..Len(faces) |-> faces[i].fid],
              LAMBDA fid : IsExpired(faces, fid, seen, now))

\* EvaluateExpired that reads the expired face and leaves it in the store
RECURSIVE EvaluateExpiredKept(_, _, _)
EvaluateExpiredKept(expired, faces, records) ==
    IF expired = <<>> THEN <<faces, records>>
    ELSE LET fid == Head(expired)
             data == DictGet(faces, fid)
         IN  EvaluateExpiredKept(Tail(expired), faces,
                 IF CalculateEngagement(data)
                 THEN Append(records, MakeRecord(data))
                 ELSE records)

\* lines 357-369: pop every expired face in turn and append the record of
\* each engaged one; the result is <<active_faces, final_records>>
RECURSIVE EvaluateExpired(_, _, _)
EvaluateExpired(expired, faces, records) ==
    IF expired = <<>> THEN <<faces, records>>
    ELSE LET fid == Head(expired)
             data == DictGet(faces, fid)
         IN  EvaluateExpired(Tail(expired), DictPop(faces, fid),
                 IF CalculateEngagement(data)
                 THEN Append(records, MakeRecord(data))
                 ELSE records)

\* ---------------------------------------------------------------- gender vote
\* np.linspace(1, 2, num): step = (2 - 1) / (num - 1), the values
\* i * step + 1 for i = 0 .. num - 1, and the last value set to 2
Linspace(num) ==
    IF num = 1 THEN <<FloatOne>>
    ELSE LET step == FloatInverse(num - 1)
         IN  [i \in 1..num |->
                 IF i = num THEN FloatTwo
                 ELSE FloatAdd(FloatMul(step, i - 1), FloatOne)]

\* sum(w for w, g in zip(weights, gender_queue) if g == gender), from the left
RECURSIVE ScoreFrom(_, _, _, _, _)
ScoreFrom(weights, gender_queue, gender, i, score) ==
    IF i > Len(gender_queue) THEN score
    ELSE ScoreFrom(weights, gender_queue, gender, i + 1,
                   IF gender_queue[i] = gender
                   THEN FloatAdd(score, weights[i])
                   ELSE score)

\* lines 118-128
WeightedGenderVote(gender_queue) ==
    IF gender_queue = <<>> THEN "Unknown"
    ELSE LET weights == Linspace(Len(gender_queue))
             female_score == ScoreFrom(weights, gender_queue, "F", 1, FloatZero)
             male_score == ScoreFrom(weights, gender_queue, "M", 1, FloatZero)
         IN  IF BigLess(male_score, female_score) THEN "F" ELSE "M"

\* ---------------------------------------------------------------- persistence
\* engagement_data.json is [kind, audience, count, audience_present,
\* current_audience]: kind "missing" (no file), "garbage" (not JSON),
\* "no_keys" (JSON without the keys audience and count), "not_records" (JSON
\* with both keys whose audience is not a list of objects: a number, null,
\* a list of numbers) or "doc"; current_audience is a sequence of length 0
\* (key absent) or 1
NoDocument(kind) ==
    [kind |-> kind, audience |-> <<>>, count |-> 0,
     audience_present |-> FALSE, current_audience |-> <<>>]

\* lines 146-170: data["audience"] whatever it is, if both keys are there
LoadExistingEngagementData(f) ==
    IF f.kind \in {"doc", "not_records"} THEN f.audience ELSE <<>>

\* lines 184-194: the loops over existing_records and the concatenation
\* raise TypeError on an audience that is not a list of objects
MergeRaises(f) == f.kind = "not_records"

\* NewRecords without the test of line 190: every pending record is new
NewRecordsUnchecked(existing_records, pending) == pending

\* lines 179-194: the records of pending whose entry is not in the loaded log
NewRecords(existing_records, pending) ==
    LET existing_entries == {existing_records[i].entry : i \in 1..Len(existing_records)}
    IN  SelectSeq(pending, LAMBDA r : r.entry \notin existing_entries)

CombinedRecords(existing_records, pending) ==
    existing_records \o NewRecords(existing_records, pending)

RECURSIVE AllQueue(_, _)
AllQueue(faces, field) ==
    IF faces = <<>> THEN <<>>
    ELSE faces[1].data[field] \o AllQueue(Tail(faces), field)

\* lines 207-243
CurrentAudience(faces) ==
    LET all_ages == AllQueue(faces, "age_queue")
        genders == AllQueue(faces, "gender_queue")
        emotions == AllQueue(faces, "emotion_queue")
        RECURSIVE Sum(_)
        Sum(q) == IF q = <<>> THEN 0 ELSE Head(q) + Sum(Tail(q))
    IN  [count |-> Len(faces),
         age |-> IF all_ages # <<>> THEN Frac(Sum(all_ages), Len(all_ages)) ELSE Frac(30, 1),
         gender |-> IF CountOf(genders, "M") >= CountOf(genders, "F") THEN "M" ELSE "F",
         emotion |-> IF emotions # <<>> THEN MostCommon(emotions) ELSE "Neutral"]

\* OutputData that counts the records new in this flush
OutputDataCountsNew(f, faces, pending) ==
    LET existing_records == LoadExistingEngagementData(f)
        combined_records == CombinedRecords(existing_records, pending)
    IN  [kind |-> "doc",
         audience |-> combined_records,
         count |-> Len(NewRecords(existing_records, pending)),
         audience_present |-> Len(faces) > 0,
         current_audience |-> IF Len(faces) > 0 THEN <<CurrentAudience(faces)>> ELSE <<>>]

\* OutputData that takes the audience for present when the log has records
OutputDataFromRecords(f, faces, pending) ==
    LET combined_records == CombinedRecords(LoadExistingEngagementData(f), pending)
    IN  [kind |-> "doc",
         audience |-> combined_records,
         count |-> Len(combined_records),
         audience_present |-> Len(combined_records) > 0,
         current_audience |-> IF Len(faces) > 0 THEN <<CurrentAudience(faces)>> ELSE <<>>]

\* lines 196-243: the document a flush writes
OutputData(f, faces, pending) ==
    LET combined_records == CombinedRecords(LoadExistingEngagementData(f), pending)
    IN  [kind |-> "doc",
         audience |-> combined_records,
         count |-> Len(combined_records),
         audience_present |-> Len(faces) > 0,
         current_audience |-> IF Len(faces) > 0 THEN <<CurrentAudience(faces)>> ELSE <<>>]

\* lines 245-248: open(path, "w") raises and leaves the file as it was
\* ("open_fails"), or truncates it and json.dump raises part way
\* ("dump_fails"), or the document is written ("ok")
WriteOutcomes == {"ok", "open_fails", "dump_fails"}

\* how a call of save_engagement_data may end: "merge_fails" before the
\* file is opened, or as the write ends
SaveOutcomes(f, outcomes) == IF MergeRaises(f) THEN {"merge_fails"} ELSE outcomes

FileAfterWrite(f, faces, pending, outcome) ==
    CASE outcome = "ok" -> OutputData(f, faces, pending)
      [] outcome = "merge_fails" -> f
      [] outcome = "open_fails" -> f
      [] outcome = "dump_fails" -> NoDocument("garbage")

\* PendingAfterWrite that clears the buffer before the write
PendingAfterWriteCleared(pending, outcome) == <<>>

\* line 253 is reached only when the write did not raise
PendingAfterWrite(pending, outcome) == IF outcome = "ok" THEN <<>> ELSE pending

\* ---------------------------------------------------------------- decision engine
\* decision_engine.py. An advertisement is [ad_id, title, gender, age_group,
\* temperature, humidity]; a key an ad does not have is given the value at
\* which the code treats it as absent ("any" for humidity). Relevances are
\* in thousandths and scores of the display history in hundredths, exact
\* where the code has doubles: 1.5 * 1.1 is 1650 here and
\* 1.6500000000000001 there.
Ad(ad_id, title, gender, age_group, temperature, humidity) ==
    [ad_id |-> ad_id, title |-> title, gender |-> gender, age_group |-> age_group,
     temperature |-> temperature, humidity |-> humidity]

\* the three advertisements of test_decision_engine.py (lines 12-16) and
\* four more for the same audience
AdCatalog ==
    <<Ad(1, "Ice Cream", "male", "youth", "hot", "any"),
      Ad(2, "Coffee", "female", "adult", "cold", "any"),
      Ad(3, "Sunglasses", "both", "all", "hot", "any"),
      Ad(4, "Fun Run", "male", "youth", "cold", "medium"),
      Ad(5, "Skate Park", "male", "youth", "any", "any"),
      Ad(6, "Comfort Tea", "male", "youth", "hot", "high"),
      Ad(7, "Razor", "male", "all", "any", "any")>>

AdIds == {AdCatalog[i].ad_id : i \in 1..Len(AdCatalog)}

\* what content_repository.get_all_ads() may return
Repositories == {<<>>, SubSeq(AdCatalog, 1, 3), AdCatalog}

\* the key is not in the dict
Absent == "absent"

\* what get_audience_context returns (lines 297-305, 396-402)
AudienceContexts ==
    [audience_present : BOOLEAN,
     gender : {"male", "female", "both"},
     age_group : {"youth", "adult", "senior", "all"},
     emotion : {"happy", "sad", "neutral", Absent}]

\* what get_environmental_context returns
EnvContexts ==
    [temperature_category : {"hot", "cold", "moderate"},
     humidity_category : {"medium", "high"}]

\* lines 451, 453: the titles that hold one of the keywords
HappyTitles == {"Fun Run"}
SadTitles == {"Comfort Tea"}

\* calculate_demographic_relevance without the boost of a full match
CalculateDemographicRelevanceFlat(ad, audience_context) ==
    IF ~audience_context.audience_present THEN 1000
    ELSE LET gender_match ==
                 ~ /\ ad.gender \notin {"both", "any", "all"}
                   /\ ad.gender # audience_context.gender
                   /\ audience_context.gender # "both"
             age_match ==
                 ~ /\ ad.age_group \notin {"all", "any"}
                   /\ ad.age_group # audience_context.age_group
                   /\ audience_context.age_group # "all"
             by_gender == IF gender_match THEN 1000 ELSE (1000 * 2) \div 10
             by_age == IF age_match THEN by_gender ELSE (by_gender * 4) \div 10
             moody ==
                 \/ audience_context.emotion = "happy" /\ ad.title \in HappyTitles
                 \/ /\ audience_context.emotion = "sad"
                    /\ ad.title \in SadTitles
         IN  IF moody THEN (by_age * 11) \div 10 ELSE by_age

\* lines 406-456, in thousandths
CalculateDemographicRelevance(ad, audience_context) ==
    IF ~audience_context.audience_present THEN 1000
    ELSE LET gender_match ==
                 ~ /\ ad.gender \notin {"both", "any", "all"}
                   /\ ad.gender # audience_context.gender
                   /\ audience_context.gender # "both"
             age_match ==
                 ~ /\ ad.age_group \notin {"all", "any"}
                   /\ ad.age_group # audience_context.age_group
                   /\ audience_context.age_group # "all"
             by_gender == IF gender_match THEN 1000 ELSE (1000 * 2) \div 10
             by_age == IF age_match THEN by_gender ELSE (by_gender * 4) \div 10
             boosted == IF gender_match /\ age_match THEN (by_age * 15) \div 10
                        ELSE by_age
             moody ==
                 \/ audience_context.emotion = "happy" /\ ad.title \in HappyTitles
                 \/ /\ audience_context.emotion = "sad"
                    /\ ad.title \in SadTitles
         IN  IF moody THEN (boosted * 11) \div 10 ELSE boosted

\* lines 458-490, in thousandths; no advertisement has a weather_condition
CalculateEnvironmentalRelevance(ad, env_context) ==
    LET by_temperature ==
            IF ad.temperature # "any" /\ ad.temperature # env_context.temperature_category
            THEN (1000 * 2) \div 10 ELSE 1000
    IN  IF ad.humidity # "any" /\ ad.humidity # env_context.humidity_category
        THEN (by_temperature * 7) \div 10 ELSE by_temperature

\* lines 557-595: the candidates when an audience is present
AudienceCandidates(all_ads, audience_context) ==
    LET audience_gender == audience_context.gender
        audience_age == audience_context.age_group
        gender_specific_ads == SelectSeq(all_ads, LAMBDA ad : ad.gender = audience_gender)
        gender_neutral_ads ==
            SelectSeq(all_ads, LAMBDA ad : /\ ad.gender \in {"both", "any"}
                                           /\ ad.gender # audience_gender)
        age_specific_ads ==
            SelectSeq(gender_specific_ads, LAMBDA ad : ad.age_group = audience_age)
        age_neutral_ads ==
            SelectSeq(gender_specific_ads, LAMBDA ad : /\ ad.age_group \in {"all", "any"}
                                                       /\ ad.age_group # audience_age)
    IN  IF gender_specific_ads # <<>>
        THEN IF age_specific_ads # <<>> THEN age_specific_ads ELSE age_neutral_ads
        ELSE gender_neutral_ads

\* lines 598-618: the candidates by temperature
TemperatureCandidates(all_ads, env_context) ==
    LET temp_matching_ads ==
            SelectSeq(all_ads, LAMBDA ad : \/ ad.temperature = "any"
                                           \/ ad.temperature = env_context.temperature_category)
    IN  IF temp_matching_ads # <<>> THEN temp_matching_ads ELSE all_ads

\* CandidateAds that filters by temperature whether or not an audience is
\* present
CandidateAdsByTemperature(all_ads, env_context, audience_context) ==
    TemperatureCandidates(all_ads, env_context)

\* lines 555-618
CandidateAds(all_ads, env_context, audience_context) ==
    LET by_audience == IF audience_context.audience_present
                       THEN AudienceCandidates(all_ads, audience_context)
                       ELSE all_ads
    IN  IF ~audience_context.audience_present \/ by_audience = <<>>
        THEN TemperatureCandidates(all_ads, env_context)
        ELSE by_audience

\* lines 626-640, in hundred-thousandths; scores is ad_scores
CombinedScore(ad, env_context, audience_context, scores) ==
    LET base_score == 0 - scores[ad.ad_id]
        demographic_relevance == CalculateDemographicRelevance(ad, audience_context)
        environmental_relevance == CalculateEnvironmentalRelevance(ad, env_context)
    IN  IF audience_context.audience_present
        THEN 300 * base_score + 60 * demographic_relevance + 10 * environmental_relevance
        ELSE 400 * base_score + 10 * demographic_relevance + 50 * environmental_relevance

\* lines 653-658: the places in candidate_ads of the first three of the
\* stable sort by score, highest first
TopAds(candidate_ads, env_context, audience_context, scores) ==
    LET score(i) == CombinedScore(candidate_ads[i], env_context, audience_context, scores)
        before(j, i) == score(j) > score(i) \/ (score(j) = score(i) /\ j < i)
    IN  {i \in 1..Len(candidate_ads) :
            Cardinality({j \in 1..Len(candidate_ads) : before(j, i)}) < 3}

\* lines 681-695: what select_random_ad may choose from
FreshAds(all_ads, displays) ==
    LET recent == {displays[i] : i \in (Max(1, Len(displays) - 4))..Len(displays)}
        fresh_ads == SelectSeq(all_ads, LAMBDA ad : ad.ad_id \notin recent)
    IN  IF fresh_ads # <<>> THEN fresh_ads ELSE all_ads

\* lines 660-668: the advertisements the random draw may select; every
\* weight is at least 0.1, so each of the top three may be drawn
Selectable(all_ads, env_context, audience_context, scores, displays) ==
    LET candidate_ads == CandidateAds(all_ads, env_context, audience_context)
    IN  IF candidate_ads = <<>> THEN Range(FreshAds(all_ads, displays))
        ELSE {candidate_ads[i] :
                 i \in TopAds(candidate_ads, env_context, audience_context, scores)}

\* lines 503-512: self.recent_displays after the display of ad_id
DisplaysAfter(displays, ad_id) ==
    LET all == Append(displays, ad_id)
    IN  IF Len(all) > 50 THEN SubSeq(all, Len(all) - 49, Len(all)) ELSE all

\* lines 514-520: self.ad_scores after the display of ad_id
ScoresAfter(scores, ad_id) ==
    [id \in DOMAIN scores |->
        IF id = ad_id THEN scores[id] + 100 ELSE Max(0, scores[id] - 5)]

\* lines 129-154, check_audience_file_updated for a file that exists and was
\* modified at mtime: <<the value returned, audience_file_last_modified>>
CheckAudienceFileUpdated(mtime, last_modified) ==
    IF mtime > last_modified THEN <<TRUE, mtime>> ELSE <<FALSE, last_modified>>

\* lines 264-271: the age, a fraction, to its group
AgeGroupOf(age_value) ==
    IF age_value[1] < 18 * age_value[2] THEN "youth"
    ELSE IF age_value[1] < 35 * age_value[2] THEN "young_adult"
    ELSE IF age_value[1] < 55 * age_value[2] THEN "adult"
    ELSE "senior"

\* lines 274-280
GenderOf(gender_code) ==
    IF gender_code = "M" THEN "male"
    ELSE IF gender_code = "F" THEN "female"
    ELSE "both"

\* line 285: emotion.lower()
Lower(emotion) ==
    CASE emotion = "Angry" -> "angry"
      [] emotion = "Fear" -> "fear"
      [] emotion = "Happy" -> "happy"
      [] emotion = "Neutral" -> "neutral"
      [] emotion = "Sad" -> "sad"
      [] emotion = "Surprise" -> "surprise"

\* lines 248-305: the audience data of a document of the log, without its
\* timestamp
AudienceDataOf(data) ==
    IF data.audience_present /\ data.current_audience # <<>>
    THEN LET current == data.current_audience[1]
         IN  [audience_present |-> TRUE,
              count |-> data.count,
              group_size |-> current.count,
              age_group |-> AgeGroupOf(current.age),
              gender |-> GenderOf(current.gender),
              emotion |-> Lower(current.emotion)]
    ELSE [audience_present |-> data.audience_present,
          count |-> data.count,
          group_size |-> 0,
          age_group |-> "all",
          gender |-> "both",
          emotion |-> "neutral"]

\* lines 213-319, get_latest_audience_data for the file f modified at mtime:
\* [value, cached_audience_data, audience_file_last_modified], the value
\* returned and the two attributes afterwards; None is [kind |-> "nothing"].
\* A file that is not JSON ("garbage") raises JSONDecodeError at line 242,
\* caught at line 314; one that is JSON and no object ("not_object": a
\* list, a number) returns at line 246; of any other object the keys that
\* are there are read.
GetLatestAudienceData(f, mtime, cached, last_modified, skip_check) ==
    LET none == [kind |-> "nothing"]
        checked == CheckAudienceFileUpdated(mtime, last_modified)
        from_cache == ~skip_check /\ cached # none /\ ~checked[1]
        cache == IF skip_check THEN none ELSE cached
        modified == IF skip_check THEN 0
                    ELSE IF cached # none THEN checked[2]
                    ELSE last_modified
    IN  IF f.kind = "missing"
        THEN [value |-> none, cached_audience_data |-> cached,
              audience_file_last_modified |-> last_modified]
        ELSE IF from_cache
        THEN [value |-> cached, cached_audience_data |-> cached,
              audience_file_last_modified |-> modified]
        ELSE IF f.kind \in {"garbage", "not_object"}
        THEN [value |-> none, cached_audience_data |-> cache,
              audience_file_last_modified |-> modified]
        ELSE [value |-> AudienceDataOf(f), cached_audience_data |-> AudienceDataOf(f),
              audience_file_last_modified |-> modified]

\* lines 396-402, without the timestamp
DefaultAudienceContext ==
    [audience_present |-> FALSE, age_group |-> "all", gender |-> "both", group_size |-> 0]

\* lines 393-404
AudienceContextOf(audience_data) ==
    IF audience_data = [kind |-> "nothing"] THEN DefaultAudienceContext ELSE audience_data

\* ---------------------------------------------------------------- state
VARIABLES
    pc,              \* position of the process in the main loop
    current_time,    \* line 273
    last_save_time,  \* lines 259, 374
    updated_ids,     \* line 276
    active_faces,    \* line 54
    final_records,   \* line 55
    file,            \* engagement_data.json
    restarts,        \* how often the process was started again
    output_data,     \* line 200, while the file is open for writing
    reader,          \* what the decision engine last loaded from the file
    called,          \* a function called on its own: [fn, arg]
    returned,        \* what the call returned
    ad_scores,       \* decision_engine.py line 44
    recent_displays, \* decision_engine.py line 45
    history_file,    \* ad_display_history.json
    cached_audience_data,         \* decision_engine.py line 50
    audience_file_last_modified,  \* decision_engine.py line 54
    file_mtime       \* os.path.getmtime of engagement_data.json

vars == <<pc, current_time, last_save_time, updated_ids,
          active_faces, final_records, file, restarts,
          output_data, reader, called, returned,
          ad_scores, recent_displays, history_file,
          cached_audience_data, audience_file_last_modified, file_mtime>>

\* what the main loop does not touch as long as the file is written in one
\* step, nothing reads it meanwhile and no function is called on its own
apart == <<output_data, reader, called, returned,
           ad_scores, recent_displays, history_file,
           cached_audience_data, audience_file_last_modified, file_mtime>>

\* the decision engine, and the modification time its watchdog reads
engine == <<ad_scores, recent_displays, history_file,
            cached_audience_data, audience_file_last_modified, file_mtime>>

\* no value yet
Nothing == [kind |-> "nothing"]

\* lines 50 and 54: nothing is cached; the file, if there is one, was
\* modified after the epoch
CacheFresh ==
    /\ cached_audience_data = Nothing
    /\ audience_file_last_modified = 0
    /\ file_mtime = 1

\* lines 44-45 and 63-81: a new engine that found no history file
EngineFresh ==
    /\ ad_scores = [id \in AdIds |-> 0]
    /\ recent_displays = <<>>
    /\ history_file = Nothing
    /\ CacheFresh

\* a record an earlier run of the program left in the log
OldRecord ==
    [entry |-> 0, exit |-> 2, duration |-> 20, age |-> Frac(30, 1), gender |-> "M",
     emotion |-> "Happy", engagement_score |-> 20]

InitialFiles ==
    {NoDocument("missing"),
     [kind |-> "doc", audience |-> <<OldRecord>>, count |-> 1,
      audience_present |-> FALSE, current_audience |-> <<>>]}

\* the clock of the first start: after the old record was written
StartTime == 100

Init ==
    /\ pc = "capture"
    /\ current_time = StartTime
    /\ last_save_time = StartTime
    /\ updated_ids = <<>>
    /\ active_faces = <<>>
    /\ final_records = <<>>
    /\ file \in InitialFiles
    /\ restarts = 0
    /\ output_data = Nothing
    /\ reader = Nothing
    /\ called = Nothing
    /\ returned = Nothing
    /\ EngineFresh

\* ---------------------------------------------------------------- the loop
\* One detection of a frame as the loop body meets it: the rectangle dlib
\* returns, what process_face returns for it, and the time process_face takes.
Detections(faces, classifications, delays) ==
    [box : faces, face : classifications, delay : delays]

\* What the loop over the detections carries from one detection to the next:
\* active_faces, updated_ids and the reading of time.time().
LoopState(faces, seen, time) == [faces |-> faces, seen |-> seen, clock |-> time]

\* ProcessDetection that skips a detection process_face could not classify
ProcessDetectionClassified(st, d, now) ==
    LET box == ClampBox(d.box)
        centroid == Centroid(box)
        closest == ClosestFace(st.faces, centroid)
        time == st.clock + d.delay
    IN  IF Filtered(box) \/ d.face[2] = "Unknown" THEN st
        ELSE IF closest # None
        THEN LoopState(
                DictSet(DictPop(st.faces, closest), box,
                        UpdateFaceData(DictGet(st.faces, closest),
                                       d.face[1], d.face[2], d.face[3], centroid, time)),
                Append(st.seen, box), time)
        ELSE LoopState(
                DictSet(st.faces, box,
                        NewFaceData(d.face[1], d.face[2], d.face[3], centroid, now)),
                Append(st.seen, box), time)

\* lines 280-348, the body of the loop for the detection d; now is current_time
ProcessDetection(st, d, now) ==
    LET box == ClampBox(d.box)
        centroid == Centroid(box)
        closest == ClosestFace(st.faces, centroid)
        time == st.clock + d.delay
    IN  IF Filtered(box) THEN st
        ELSE IF closest # None
        THEN LoopState(
                DictSet(DictPop(st.faces, closest), box,
                        UpdateFaceData(DictGet(st.faces, closest),
                                       d.face[1], d.face[2], d.face[3], centroid, time)),
                Append(st.seen, box), time)
        ELSE LoopState(
                DictSet(st.faces, box,
                        NewFaceData(d.face[1], d.face[2], d.face[3], centroid, now)),
                Append(st.seen, box), time)

\* lines 279-348: the loop over the detections of the frame
RECURSIVE ProcessDetections(_, _, _)
ProcessDetections(st, dets, now) ==
    IF dets = <<>> THEN st
    ELSE ProcessDetections(ProcessDetection(st, Head(dets), now), Tail(dets), now)

\* lines 268-348: a frame is read, gap tenths of a second after the frame
\* before (the time spent on that frame included), and its detections are
\* processed
ProcessFrameFrom(gaps, frames, horizon) ==
    /\ pc = "capture"
    /\ \E gap \in gaps, dets \in frames :
        /\ current_time + gap <= StartTime + horizon
        /\ LET now == current_time + gap
               st == ProcessDetections(LoopState(active_faces, <<>>, now), dets, now)
           IN  /\ current_time' = now
               /\ active_faces' = st.faces
               /\ updated_ids' = st.seen
    /\ pc' = "sweep"
    /\ UNCHANGED <<last_save_time, final_records, file, restarts>>
    /\ UNCHANGED apart

ProcessFrame ==
    ProcessFrameFrom(SlowGaps,
                     SeqsUpTo(Detections(FarFaces, Classifications, {0}), MaxDetections),
                     MaxTime)

\* lines 269-271: cap.read() fails, the loop is left
CaptureFails ==
    /\ pc = "capture"
    /\ pc' = "finally"
    /\ UNCHANGED <<current_time, last_save_time, updated_ids,
                   active_faces, final_records, file, restarts>>
    /\ UNCHANGED apart

\* lines 350-369: the expiry sweep and the evaluation of the expired faces
Sweep ==
    /\ pc = "sweep"
    /\ LET expired == Expired(active_faces, updated_ids, current_time)
           result == EvaluateExpired(expired, active_faces, final_records)
       IN  /\ active_faces' = result[1]
           /\ final_records' = result[2]
    /\ pc' = "save"
    /\ UNCHANGED <<current_time, last_save_time, updated_ids,
                   file, restarts>>
    /\ UNCHANGED apart

\* lines 372-373 and 386: save_engagement_data is about to run, because the
\* periodic flush is due or because the loop was left
FlushDue ==
    \/ pc = "save" /\ current_time - last_save_time >= DATA_SAVE_INTERVAL
    \/ pc = "finally"

\* lines 372-374: the periodic flush is due
PeriodicSaveWith(outcomes) ==
    /\ pc = "save"
    /\ current_time - last_save_time >= DATA_SAVE_INTERVAL
    /\ \E outcome \in SaveOutcomes(file, outcomes) :
        /\ file' = FileAfterWrite(file, active_faces, final_records, outcome)
        /\ final_records' = PendingAfterWrite(final_records, outcome)
        /\ IF outcome = "ok"
           THEN pc' = "key" /\ last_save_time' = current_time
           ELSE pc' = "finally" /\ UNCHANGED last_save_time
    /\ UNCHANGED <<current_time, updated_ids, active_faces, restarts>>
    /\ UNCHANGED apart

PeriodicSave == PeriodicSaveWith(WriteOutcomes)

\* line 372: the flush is not due yet
SkipSave ==
    /\ pc = "save"
    /\ current_time - last_save_time < DATA_SAVE_INTERVAL
    /\ pc' = "key"
    /\ UNCHANGED <<current_time, last_save_time, updated_ids,
                   active_faces, final_records, file, restarts>>
    /\ UNCHANGED apart

\* lines 377-378: no key, the loop goes on
NoKey ==
    /\ pc = "key"
    /\ pc' = "capture"
    /\ UNCHANGED <<current_time, last_save_time, updated_ids,
                   active_faces, final_records, file, restarts>>
    /\ UNCHANGED apart

\* lines 377-378: ESC leaves the loop
EscKey ==
    /\ pc = "key"
    /\ pc' = "finally"
    /\ UNCHANGED <<current_time, last_save_time, updated_ids,
                   active_faces, final_records, file, restarts>>
    /\ UNCHANGED apart

\* FinalSaveWith that first evaluates the faces left in the store, as the
\* sweep would, and flushes their records
FinalSaveWithEvaluation(outcomes) ==
    /\ pc = "finally"
    /\ LET result == EvaluateExpired([i \in 1..Len(active_faces) |-> active_faces[i].fid],
                                     active_faces, final_records)
       IN  \E outcome \in SaveOutcomes(file, outcomes) :
              /\ file' = FileAfterWrite(file, result[1], result[2], outcome)
              /\ final_records' = PendingAfterWrite(result[2], outcome)
              /\ active_faces' = result[1]
    /\ pc' = "done"
    /\ UNCHANGED <<current_time, last_save_time, updated_ids, restarts>>
    /\ UNCHANGED apart

\* lines 380-386: the final flush
FinalSaveWith(outcomes) ==
    /\ pc = "finally"
    /\ \E outcome \in SaveOutcomes(file, outcomes) :
        /\ file' = FileAfterWrite(file, active_faces, final_records, outcome)
        /\ final_records' = PendingAfterWrite(final_records, outcome)
    /\ pc' = "done"
    /\ UNCHANGED <<current_time, last_save_time, updated_ids,
                   active_faces, restarts>>
    /\ UNCHANGED apart

FinalSave == FinalSaveWith(WriteOutcomes)

\* the program is started again: lines 54-55 and 259 run anew, the file stays
Restart ==
    /\ pc = "done"
    /\ restarts < MaxRestarts
    /\ restarts' = restarts + 1
    /\ pc' = "capture"
    /\ last_save_time' = current_time
    /\ updated_ids' = <<>>
    /\ active_faces' = <<>>
    /\ final_records' = <<>>
    /\ UNCHANGED <<current_time, file>>
    /\ UNCHANGED apart

Next ==
    \/ ProcessFrame
    \/ CaptureFails
    \/ Sweep
    \/ PeriodicSave
    \/ SkipSave
    \/ NoKey
    \/ EscKey
    \/ FinalSave
    \/ Restart

Spec == Init /\ [][Next]_vars

\* ---------------------------------------------------------------- tracking
\* The same program before a camera that sees faces at every distance from
\* one another; the log starts empty, every write succeeds and the program
\* runs once.
TrackMaxTime == 66

TrackInit ==
    /\ Init
    /\ file = NoDocument("missing")

TrackFrame ==
    ProcessFrameFrom(FrameGaps,
                     SeqsUpTo(Detections(RawFaces, Classifications, {0}), MaxDetections),
                     TrackMaxTime)

TrackPeriodicSave == PeriodicSaveWith({"ok"})

TrackFinalSave == FinalSaveWith({"ok"})

TrackNext ==
    \/ TrackFrame
    \/ CaptureFails
    \/ Sweep
    \/ TrackPeriodicSave
    \/ SkipSave
    \/ NoKey
    \/ EscKey
    \/ TrackFinalSave

SpecTrack == TrackInit /\ [][TrackNext]_vars

\* ---------------------------------------------------------------- dwelling
\* The same program before a camera that sees at most one face in a frame,
\* anywhere, for long enough to pause, to walk on and to be forgotten;
\* process_face takes time.
DwellMaxTime == 111

DwellFrame ==
    ProcessFrameFrom(FrameGaps,
                     SeqsUpTo(Detections(RawFaces, Classifications, ClassifyDelays), 1),
                     DwellMaxTime)

DwellNext ==
    \/ DwellFrame
    \/ CaptureFails
    \/ Sweep
    \/ TrackPeriodicSave
    \/ SkipSave
    \/ NoKey
    \/ EscKey
    \/ TrackFinalSave

SpecDwell == TrackInit /\ [][DwellNext]_vars

\* ---------------------------------------------------------------- staying
\* The same program before a camera that sees one face, in every frame, ten
\* frames a second, classified now one way and now the other.
WindowMaxTime == 16

WindowFrame ==
    ProcessFrameFrom({1},
                     {<<d>> : d \in Detections({Face100}, {Classified, Defaulted}, {0})},
                     WindowMaxTime)

WindowNext ==
    \/ WindowFrame
    \/ CaptureFails
    \/ Sweep
    \/ SkipSave
    \/ NoKey
    \/ EscKey
    \/ TrackFinalSave

SpecWindow == TrackInit /\ [][WindowNext]_vars

\* ---------------------------------------------------------------- a damaged log
\* The same program started on a log that is missing or damaged; every
\* write succeeds.
LogMaxTime == 109

MalformedLogs ==
    {NoDocument("missing"), NoDocument("garbage"), NoDocument("no_keys"),
     [kind |-> "not_records", audience |-> "not a list of objects", count |-> 0,
      audience_present |-> FALSE, current_audience |-> <<>>]}

LogInit ==
    /\ pc = "capture"
    /\ current_time = StartTime
    /\ last_save_time = StartTime
    /\ updated_ids = <<>>
    /\ active_faces = <<>>
    /\ final_records = <<>>
    /\ file \in MalformedLogs
    /\ restarts = 0
    /\ output_data = Nothing
    /\ reader = Nothing
    /\ called = Nothing
    /\ returned = Nothing
    /\ EngineFresh

LogFrame ==
    ProcessFrameFrom(SlowGaps,
                     SeqsUpTo(Detections(FarFaces, Classifications, {0}), MaxDetections),
                     LogMaxTime)

LogNext ==
    \/ LogFrame
    \/ CaptureFails
    \/ Sweep
    \/ TrackPeriodicSave
    \/ SkipSave
    \/ NoKey
    \/ EscKey
    \/ TrackFinalSave

SpecLog == LogInit /\ [][LogNext]_vars

\* ---------------------------------------------------------------- read while written
\* The same program with the decision engine reading engagement_data.json
\* beside it. The write of save_engagement_data is two steps here, as it is
\* for a reader: open(output_path, "w") empties the file (line 247), and
\* json.dump fills it (line 248); the log starts as in Init, every write
\* succeeds and the camera sees one face or none.
ReaderMaxTime == 109

ReaderFrame ==
    ProcessFrameFrom(SlowGaps,
                     SeqsUpTo(Detections({Face100}, Classifications, {0}), 1),
                     ReaderMaxTime)

\* lines 176-247: the document is computed from the file as loaded, then
\* the file is opened for writing, which truncates it
OpenFile ==
    /\ FlushDue
    /\ output_data' = OutputData(file, active_faces, final_records)
    /\ file' = NoDocument("garbage")
    /\ pc' = IF pc = "save" THEN "dump" ELSE "final_dump"
    /\ UNCHANGED <<current_time, last_save_time, updated_ids, active_faces,
                   final_records, restarts, reader, called, returned, engine>>

\* lines 248-253, and 374 after the periodic flush
DumpFile ==
    /\ pc \in {"dump", "final_dump"}
    /\ file' = output_data
    /\ output_data' = Nothing
    /\ final_records' = <<>>
    /\ IF pc = "dump"
       THEN pc' = "key" /\ last_save_time' = current_time
       ELSE pc' = "done" /\ UNCHANGED last_save_time
    /\ UNCHANGED <<current_time, updated_ids, active_faces, restarts,
                   reader, called, returned, engine>>

\* decision_engine.py, get_latest_audience_data: nothing is read if the
\* file does not exist (lines 226-228), else the file is opened and loaded
\* as it is at this moment (lines 241-242)
ReaderLoads ==
    /\ file.kind # "missing"
    /\ reader' = file
    /\ UNCHANGED <<pc, current_time, last_save_time, updated_ids, active_faces,
                   final_records, file, restarts, output_data, called, returned, engine>>

ReaderNext ==
    \/ ReaderFrame
    \/ CaptureFails
    \/ Sweep
    \/ OpenFile
    \/ DumpFile
    \/ SkipSave
    \/ NoKey
    \/ EscKey
    \/ ReaderLoads

SpecReader == Init /\ [][ReaderNext]_vars

\* ---------------------------------------------------------------- a face classified both ways
\* The same program before a camera that sees one face or none, the
\* classifier giving the face now one gender, now the other, now none.
GenderMaxTime == 81

GenderFrame ==
    ProcessFrameFrom(FrameGaps,
                     SeqsUpTo(Detections({Face100},
                                         {Classified, ClassifiedFemale, Defaulted}, {0}), 1),
                     GenderMaxTime)

GenderNext ==
    \/ GenderFrame
    \/ CaptureFails
    \/ Sweep
    \/ TrackPeriodicSave
    \/ SkipSave
    \/ NoKey
    \/ EscKey
    \/ TrackFinalSave

SpecGender == TrackInit /\ [][GenderNext]_vars

\* ---------------------------------------------------------------- one visitor
\* The same program before a camera that reads a frame every half second
\* and sees one person: in the frame at SceneWalk[i].at tenths of a second
\* after the first one the face is centred at SceneWalk[i].centroid, and
\* after the last of these frames no frame shows a face. process_face
\* takes no time and classifies the face one way or the other.
SceneWalk ==
    <<[at |-> 0, centroid |-> <<100, 100>>],
      [at |-> 5, centroid |-> <<105, 102>>],
      [at |-> 10, centroid |-> <<110, 105>>],
      [at |-> 15, centroid |-> <<115, 107>>],
      [at |-> 20, centroid |-> <<120, 110>>]>>

SceneMaxTime == 100

\* the first frame is read one frame period after the start
SceneEnter == StartTime + SceneWalk[2].at - SceneWalk[1].at

SceneLeft == SceneEnter + SceneWalk[Len(SceneWalk)].at

\* the rectangle dlib returns for a face centred at c
SceneBox(c) == <<c[1] - 30, c[2] - 30, c[1] + 30, c[2] + 30>>

SceneFrame ==
    \/ \E i \in 1..Len(SceneWalk) :
        /\ current_time < SceneEnter + SceneWalk[i].at
        /\ i > 1 => current_time = SceneEnter + SceneWalk[i - 1].at
        /\ ProcessFrameFrom(
              {SceneEnter + SceneWalk[i].at - current_time},
              {<<d>> : d \in Detections({SceneBox(SceneWalk[i].centroid)},
                                        {Classified, ClassifiedFemale}, {0})},
              SceneMaxTime)
    \/ /\ current_time >= SceneLeft
       /\ ProcessFrameFrom(FrameGaps \cup {SceneWalk[2].at - SceneWalk[1].at},
                           {<<>>}, SceneMaxTime)

SceneNext ==
    \/ SceneFrame
    \/ CaptureFails
    \/ Sweep
    \/ TrackPeriodicSave
    \/ SkipSave
    \/ NoKey
    \/ EscKey
    \/ TrackFinalSave

SpecScene == TrackInit /\ [][SceneNext]_vars

\* ---------------------------------------------------------------- two visitors
\* The same program before a camera that sees two people far apart, each
\* in some frames and not in others: the classifier gives the one age 30
\* whenever it sees them and the other age 40. Every write succeeds.
PairMaxTime == 66

PairDetections ==
    <<[box |-> Face100, face |-> Classified, delay |-> 0],
      [box |-> Face220, face |-> ClassifiedForty, delay |-> 0]>>

PairFrame ==
    ProcessFrameFrom(FrameGaps,
                     {SelectSeq(PairDetections, LAMBDA d : d.box \in seen) :
                         seen \in SUBSET {Face100, Face220}},
                     PairMaxTime)

PairNext ==
    \/ PairFrame
    \/ CaptureFails
    \/ Sweep
    \/ TrackPeriodicSave
    \/ SkipSave
    \/ NoKey
    \/ EscKey
    \/ TrackFinalSave

SpecPair == TrackInit /\ [][PairNext]_vars

\* ---------------------------------------------------------------- a failing classifier
\* The same program before a camera that sees one person, a step to the
\* left or to the right, or nobody; in some frames process_face fails
\* on the face (lines 79-80 and 98-100) and returns the defaults.
BlindMaxTime == 81

BlindFaces == {Face100, Face160}

\* a frame with one face that process_face cannot classify
BlindFrame ==
    ProcessFrameFrom(FrameGaps,
                     {<<d>> : d \in Detections(BlindFaces, {Defaulted}, {0})},
                     BlindMaxTime)

\* a frame with nobody, or with one face that is classified
SightedFrame ==
    ProcessFrameFrom(FrameGaps,
                     SeqsUpTo(Detections(BlindFaces, {Classified}, {0}), 1),
                     BlindMaxTime)

BlindNext ==
    \/ BlindFrame
    \/ SightedFrame
    \/ CaptureFails
    \/ Sweep
    \/ TrackPeriodicSave
    \/ SkipSave
    \/ NoKey
    \/ EscKey
    \/ TrackFinalSave

SpecBlind == TrackInit /\ [][BlindNext]_vars

\* ---------------------------------------------------------------- faces at the limits
\* The same program before a camera in whose every frame dlib finds one
\* rectangle, among them rectangles just below and just at the
\* limits of the filters: 19 and 20 pixels wide or high, 1980 and 2000
\* square pixels, top edge at 47 and at 48 of 480 pixels.
EdgeMaxTime == 81

FaceThin == <<95, 100, 114, 160>>
FaceSlim == <<90, 60, 110, 160>>
FaceFlat == <<70, 120, 130, 139>>
FaceSmall == <<78, 100, 122, 145>>
FaceHigh == <<70, 47, 130, 107>>
FaceBelowMargin == <<70, 48, 130, 108>>

EdgeFaces ==
    {Face100, Face160, FaceThin, FaceSlim, FaceFlat, FaceSmall, FaceHigh,
     FaceBelowMargin}

\* width or height below the minimum dimension, area below the minimum
\* area, or top edge in the top tenth of the frame
BelowLimits(b) ==
    \/ b[3] - b[1] < MIN_FACE_DIMENSION
    \/ b[4] - b[2] < MIN_FACE_DIMENSION
    \/ (b[3] - b[1]) * (b[4] - b[2]) < MIN_FACE_AREA
    \/ b[2] * 100 < FACE_Y_THRESHOLD_PERCENT * FrameHeight

\* a frame with one rectangle below the limits
SmallFaceFrame ==
    ProcessFrameFrom(FrameGaps,
                     {<<d>> : d \in Detections({b \in EdgeFaces : BelowLimits(b)},
                                               Classifications, {0})},
                     EdgeMaxTime)

\* a frame with one rectangle within the limits
FullFaceFrame ==
    ProcessFrameFrom(FrameGaps,
                     {<<d>> : d \in Detections({b \in EdgeFaces : ~BelowLimits(b)},
                                               Classifications, {0})},
                     EdgeMaxTime)

EdgeNext ==
    \/ SmallFaceFrame
    \/ FullFaceFrame
    \/ CaptureFails
    \/ Sweep
    \/ TrackPeriodicSave
    \/ SkipSave
    \/ NoKey
    \/ EscKey
    \/ TrackFinalSave

SpecEdge == TrackInit /\ [][EdgeNext]_vars

\* ---------------------------------------------------------------- a loop that goes on
\* The same program before the two visitors, left running: cap.read()
\* returns in the end and every step of the loop body ends, so the loop is
\* not left waiting at a step for ever. It may still be left by a failed
\* read or by ESC at any iteration. Every write succeeds. The sweep is
\* enabled exactly where pc = "sweep" and every sweep leaves that place, so
\* its weak fairness is written as the loop not staying there for ever.
LiveMaxTime == 96

LiveFrame ==
    ProcessFrameFrom(FrameGaps,
                     {SelectSeq(PairDetections, LAMBDA d : d.box \in seen) :
                         seen \in SUBSET {Face100, Face220}},
                     LiveMaxTime)

LiveNext ==
    \/ LiveFrame
    \/ CaptureFails
    \/ Sweep
    \/ TrackPeriodicSave
    \/ SkipSave
    \/ NoKey
    \/ EscKey
    \/ TrackFinalSave

SpecLive ==
    /\ TrackInit
    /\ [][LiveNext]_vars
    /\ WF_vars(LiveFrame)
    /\ []<>(pc # "sweep")
    /\ WF_vars(TrackPeriodicSave)
    /\ WF_vars(SkipSave)
    /\ WF_vars(NoKey)
    /\ WF_vars(TrackFinalSave)

\* ---------------------------------------------------------------- functions on their own
\* A call of one function of the module: called is [kind, fn, arg], and
\* returned is [kind, value] once the function has returned.
Call(fn, arg) == [kind |-> "call", fn |-> fn, arg |-> arg]

Value(v) == [kind |-> "value", value |-> v]

\* the main loop stands still while a function is called on its own
LoopIdle ==
    /\ pc = "capture"
    /\ current_time = StartTime
    /\ last_save_time = StartTime
    /\ updated_ids = <<>>
    /\ active_faces = <<>>
    /\ final_records = <<>>
    /\ file = NoDocument("missing")
    /\ restarts = 0
    /\ output_data = Nothing
    /\ reader = Nothing

Idle == LoopIdle /\ EngineFresh

\* the gender windows of at most MaxWindow observations
MaxWindow == 6

VoteInit ==
    /\ Idle
    /\ called \in {Call("weighted_gender_vote", q) :
                      q \in SeqsUpTo({"M", "F", "Unknown"}, MaxWindow)}
    /\ returned = Nothing

CallWeightedGenderVote ==
    /\ called.kind = "call"
    /\ called.fn = "weighted_gender_vote"
    /\ returned = Nothing
    /\ returned' = Value(WeightedGenderVote(called.arg))
    /\ UNCHANGED <<pc, current_time, last_save_time, updated_ids, active_faces,
                   final_records, file, restarts, output_data, reader, called, engine>>

SpecVote == VoteInit /\ [][CallWeightedGenderVote]_vars

\* durations of engaged faces, in hundredths of a second, up to MaxDuration
HUNDREDTHS_PER_SECOND == 100
MaxDuration == 2600

ScoreInit ==
    /\ Idle
    /\ called \in {Call("engagement_score", k) :
                      k \in ((ENGAGEMENT_THRESHOLD * HUNDREDTHS_PER_SECOND)
                                \div TENTHS_PER_SECOND)..MaxDuration}
    /\ returned = Nothing

\* line 368 for the duration called.arg / 100 seconds
CallEngagementScore ==
    /\ called.kind = "call"
    /\ called.fn = "engagement_score"
    /\ returned = Nothing
    /\ returned' = Value(EngagementScoreOf(Decimal(called.arg, HUNDREDTHS_PER_SECOND)))
    /\ UNCHANGED <<pc, current_time, last_save_time, updated_ids, active_faces,
                   final_records, file, restarts, output_data, reader, called, engine>>

SpecScore == ScoreInit /\ [][CallEngagementScore]_vars

\* ---------------------------------------------------------------- the engine's calls
\* calculate_demographic_relevance for advertisements of every kind of
\* gender, age group and title
AdKinds ==
    {Ad(1, title, gender, age_group, "any", "any") :
        title \in {"Coffee", "Fun Run", "Comfort Tea"},
        gender \in {"male", "female", "both", "any", "all"},
        age_group \in {"youth", "adult", "all", "any"}}

RelevanceInit ==
    /\ Idle
    /\ called \in {Call("calculate_demographic_relevance",
                        [ad |-> ad, audience_context |-> audience_context]) :
                      ad \in AdKinds, audience_context \in AudienceContexts}
    /\ returned = Nothing

CallCalculateDemographicRelevance ==
    /\ called.kind = "call"
    /\ called.fn = "calculate_demographic_relevance"
    /\ returned = Nothing
    /\ returned' = Value(CalculateDemographicRelevance(called.arg.ad,
                                                       called.arg.audience_context))
    /\ UNCHANGED <<pc, current_time, last_save_time, updated_ids, active_faces,
                   final_records, file, restarts, output_data, reader, called, engine>>

SpecRelevance == RelevanceInit /\ [][CallCalculateDemographicRelevance]_vars

\* The decision engine selecting advertisements, one call after another,
\* for whatever the repository, the weather and the audience are at each
\* call, until MaxDisplays advertisements are in its history.
MaxDisplays == 2

\* select_optimal_content returned None
NoAd == [kind |-> "none"]

\* lines 86-94: the history file after save_display_history
SavedHistory(displays, scores) ==
    [kind |-> "history", recent_displays |-> displays, ad_scores |-> scores]

\* the history files an engine may find when it starts
Histories == {Nothing, SavedHistory(<<1>>, [id \in AdIds |-> IF id = 1 THEN 100 ELSE 0])}

\* lines 25-61 and 63-81
EngineInit ==
    /\ LoopIdle
    /\ called = Nothing
    /\ returned = Nothing
    /\ CacheFresh
    /\ history_file \in Histories
    /\ IF history_file = Nothing
       THEN ad_scores = [id \in AdIds |-> 0] /\ recent_displays = <<>>
       ELSE /\ ad_scores = history_file.ad_scores
            /\ recent_displays = history_file.recent_displays

\* select_optimal_content is called; lines 537-548: what the two contexts
\* and the repository are at this call
CallSelectOptimalContent ==
    /\ called = Nothing
    /\ Len(recent_displays) < MaxDisplays
    /\ \E env_context \in EnvContexts, audience_context \in AudienceContexts,
          all_ads \in Repositories :
          called' = Call("select_optimal_content",
                         [env_context |-> env_context,
                          audience_context |-> audience_context,
                          all_ads |-> all_ads])
    /\ UNCHANGED <<pc, current_time, last_save_time, updated_ids, active_faces,
                   final_records, file, restarts, output_data, reader, returned, engine>>

\* lines 550-552: no advertisements, None is returned
SelectNothing ==
    /\ called.kind = "call"
    /\ called.fn = "select_optimal_content"
    /\ returned = Nothing
    /\ called.arg.all_ads = <<>>
    /\ returned' = NoAd
    /\ UNCHANGED <<pc, current_time, last_save_time, updated_ids, active_faces,
                   final_records, file, restarts, output_data, reader, called, engine>>

\* lines 555-679 with update_ad_score (lines 492-523); the history file is
\* rewritten unless save_display_history fails, which it only logs
SelectOptimalContent ==
    /\ called.kind = "call"
    /\ called.fn = "select_optimal_content"
    /\ returned = Nothing
    /\ called.arg.all_ads # <<>>
    /\ \E selected \in Selectable(called.arg.all_ads, called.arg.env_context,
                                  called.arg.audience_context, ad_scores,
                                  recent_displays) :
          /\ recent_displays' = DisplaysAfter(recent_displays, selected.ad_id)
          /\ ad_scores' = ScoresAfter(ad_scores, selected.ad_id)
          /\ history_file' \in {history_file, SavedHistory(recent_displays', ad_scores')}
          /\ returned' = Value(selected)
    /\ UNCHANGED <<pc, current_time, last_save_time, updated_ids, active_faces,
                   final_records, file, restarts, output_data, reader, called,
                   cached_audience_data, audience_file_last_modified, file_mtime>>

\* the caller has the advertisement
ResultTaken ==
    /\ called.kind = "call"
    /\ called.fn = "select_optimal_content"
    /\ returned # Nothing
    /\ called' = Nothing
    /\ returned' = Nothing
    /\ UNCHANGED <<pc, current_time, last_save_time, updated_ids, active_faces,
                   final_records, file, restarts, output_data, reader, engine>>

EngineNext ==
    \/ CallSelectOptimalContent
    \/ SelectNothing
    \/ SelectOptimalContent
    \/ ResultTaken

SpecEngine == EngineInit /\ [][EngineNext]_vars

\* ---------------------------------------------------------------- the engine's reads
\* the engine reads engagement_data.json while other programs write it

\* how often the file is written
MaxWrites == 3

\* what the engine may find: no file, a file caught mid-write, JSON that is
\* no object, and documents of the analyzer with nobody or somebody there
AudienceFiles ==
    {NoDocument("missing"), NoDocument("garbage"), NoDocument("not_object"),
     [NoDocument("doc") EXCEPT !.audience = <<OldRecord>>, !.count = 1],
     [NoDocument("doc") EXCEPT !.audience_present = TRUE,
         !.current_audience = <<[count |-> 1, age |-> Frac(30, 1),
                                 gender |-> "M", emotion |-> "Happy"]>>],
     [NoDocument("doc") EXCEPT !.audience = <<OldRecord>>, !.count = 1,
         !.audience_present = TRUE,
         !.current_audience = <<[count |-> 2, age |-> Frac(121, 2),
                                 gender |-> "F", emotion |-> "Neutral"]>>]}

ContextInit ==
    /\ Idle
    /\ called = Nothing
    /\ returned = Nothing

\* another program writes the file, removes it, or is caught writing it
AudienceFileWritten ==
    /\ file_mtime <= MaxWrites
    /\ file' \in AudienceFiles
    /\ file_mtime' = file_mtime + 1
    /\ UNCHANGED <<pc, current_time, last_save_time, updated_ids, active_faces,
                   final_records, restarts, output_data, reader, called, returned,
                   ad_scores, recent_displays, history_file,
                   cached_audience_data, audience_file_last_modified>>

\* lines 381-404: get_audience_context(skip_check), as smart_ad_display.py
\* calls it at lines 848 (skip_check=True) and 911 (without)
GetAudienceContext ==
    \E skip_check \in BOOLEAN :
        LET read == GetLatestAudienceData(file, file_mtime, cached_audience_data,
                                          audience_file_last_modified, skip_check)
        IN  /\ called' = Call("get_audience_context", skip_check)
            /\ returned' = Value(AudienceContextOf(read.value))
            /\ cached_audience_data' = read.cached_audience_data
            /\ audience_file_last_modified' = read.audience_file_last_modified
            /\ UNCHANGED <<pc, current_time, last_save_time, updated_ids,
                           active_faces, final_records, file, restarts,
                           output_data, reader, ad_scores, recent_displays,
                           history_file, file_mtime>>

ContextNext == AudienceFileWritten \/ GetAudienceContext

SpecContext == ContextInit /\ [][ContextNext]_vars

\* ================================================================ claims
\* A flush whose write completed: it is the only step that empties a
\* non-empty final_records while the process runs.
FlushCompleted ==
    /\ PeriodicSave \/ FinalSave
    /\ final_records # <<>>
    /\ final_records' = <<>>

\* ---------------------------------------------------------------- C1
\* C1: flushing is idempotent. Whatever the log and the pending buffer, the
\* document a completed flush writes is a fixed point of flushing: a second
\* flush with the buffer emptied by the first (no face expired in between),
\* and a second flush that is given the same pending records again, both
\* write the same audience list and the same count.
FlushIdempotent ==
    LET once == OutputData(file, active_faces, final_records)
        again == OutputData(once, active_faces, PendingAfterWrite(final_records, "ok"))
        same == OutputData(once, active_faces, final_records)
    IN  /\ again.audience = once.audience
        /\ again.count = once.count
        /\ same.audience = once.audience
        /\ same.count = once.count

\* a log that holds records already and a buffer that holds a record to flush
FlushIdempotentWitness ==
    /\ pc \in {"save", "finally"}
    /\ file.kind = "doc"
    /\ Len(file.audience) >= 2
    /\ final_records # <<>>

\* ---------------------------------------------------------------- C2
\* C2: no two records of the persisted audience list have the same entry
\* timestamp string.
UniqueEntries ==
    file.kind = "doc" =>
        \A i, j \in 1..Len(file.audience) :
            file.audience[i].entry = file.audience[j].entry => i = j

\* ---------------------------------------------------------------- C3
\* C3: no record is lost. Every record in the pending buffer is in the
\* persisted log once a flush has completed its write.
NoRecordLost ==
    [][FlushCompleted =>
         \A i \in 1..Len(final_records) : final_records[i] \in Range(file'.audience)]_vars

\* ---------------------------------------------------------------- the loop, seen from a state
\* The states of the loop over the detections that the program is in or may
\* come to next: before the first detection of the frame that follows
\* (pc = "capture") and after the detections of the frame just processed,
\* where one more detection may follow (pc = "sweep"). In the second case
\* time.time() reads current_time, as it does where process_face takes no time.
LoopStates ==
    IF pc = "capture"
    THEN {[st |-> LoopState(active_faces, <<>>, current_time + gap),
           now |-> current_time + gap] : gap \in FrameGaps}
    ELSE IF pc = "sweep"
    THEN {[st |-> LoopState(active_faces, updated_ids, current_time), now |-> current_time]}
    ELSE {}

\* the detections that pass the filters
Unfiltered == {d \in Detections(RawFaces, Classifications, {0}) : ~Filtered(ClampBox(d.box))}

\* two face_data of one tracked identity: entry_time and initial_centroid
\* are what a face keeps for life
SameIdentity(a, b) ==
    /\ a.entry_time = b.entry_time
    /\ a.initial_centroid = b.initial_centroid

\* the window after is the window before with v appended, the oldest
\* observation evicted if the window was full
AppendedTo(before, v, after) ==
    after = IF Len(before) < TRACKING_WINDOW
            THEN before \o <<v>>
            ELSE SubSeq(before, 2, Len(before)) \o <<v>>

\* duration and displacement of a tracked face, and the predicate of the
\* claims: at least 1.5 s long and at most 80 px away
Duration(data) == data.exit_time - data.entry_time

Displacement2(data) == Dist2(data.last_centroid, data.initial_centroid)

Engaged(data) ==
    /\ Duration(data) >= ENGAGEMENT_THRESHOLD
    /\ Displacement2(data) <= STABILITY_THRESHOLD * STABILITY_THRESHOLD

\* the record r is the record of the tracked face data
RecordOf(r, data) ==
    /\ r.entry = FormatTime(data.entry_time)
    /\ r.exit = FormatTime(data.exit_time)
    /\ r.duration = Duration(data)

\* ---------------------------------------------------------------- C4
\* C4: a tracked identity leaves the store only through the expiry sweep.
\* In every step that is not the sweep, every identity of the store is
\* still in the store afterwards, and the store holds no fewer faces than
\* before: matching a detection or starting a new face neither removes nor
\* overwrites another face.
IdentitiesKept ==
    [][pc # "sweep" =>
         /\ Len(active_faces') >= Len(active_faces)
         /\ \A i \in 1..Len(active_faces) :
              \E j \in 1..Len(active_faces') :
                 SameIdentity(active_faces[i].data, active_faces'[j].data)]_vars

\* two faces tracked side by side, within the threshold of one another, one
\* of them re-keyed by a match in this frame
IdentitiesKeptWitness ==
    /\ pc = "sweep"
    /\ \E i, j \in 1..Len(active_faces) :
        /\ i # j
        /\ Dist2(active_faces[i].data.last_centroid, active_faces[j].data.last_centroid)
             < STABILITY_THRESHOLD * STABILITY_THRESHOLD
        /\ active_faces[i].data.last_centroid # active_faces[i].data.initial_centroid
        /\ active_faces[i].data.exit_time = current_time

\* ---------------------------------------------------------------- C7
\* C7: in one frame at most one detection is assigned to a tracked
\* identity. Every detection that passes the filters adds its box to
\* updated_ids and sets the exit_time of the identity it is assigned to to
\* the time of the frame or later, so after the detections of a frame there
\* are as many identities seen in the frame as boxes in updated_ids.
OneDetectionPerIdentity ==
    pc = "sweep" =>
        Len(updated_ids) =
            Cardinality({i \in 1..Len(active_faces) :
                            active_faces[i].data.exit_time >= current_time})

\* ---------------------------------------------------------------- C8
\* C8: a detection that passes the filters is assigned to the tracked face
\* whose last centroid is nearest to the centroid of the detection, if that
\* distance is strictly below STABILITY_THRESHOLD; if no tracked face is
\* strictly within the threshold it starts a new face.
AssignedToClosest ==
    \A l \in LoopStates : \A d \in Unfiltered :
        LET box == ClampBox(d.box)
            c == Centroid(box)
            faces == l.st.faces
            after == ProcessDetection(l.st, d, l.now).faces
            near == {i \in 1..Len(faces) :
                        Dist2(c, faces[i].data.last_centroid)
                            < STABILITY_THRESHOLD * STABILITY_THRESHOLD}
            assigned == DictGet(after, box)
        IN  /\ box \in Keys(after)
            /\ assigned.last_centroid = c
            /\ near = {} =>
                 /\ Len(after) = Len(faces) + 1
                 /\ assigned.entry_time = l.now
                 /\ assigned.initial_centroid = c
                 /\ \A i \in 1..Len(faces) : faces[i] \in Range(after)
            /\ near # {} =>
                 /\ Len(after) = Len(faces)
                 /\ \E i \in near :
                      /\ SameIdentity(faces[i].data, assigned)
                      /\ \A j \in 1..Len(faces) :
                           Dist2(c, faces[i].data.last_centroid)
                               <= Dist2(c, faces[j].data.last_centroid)
                      /\ \A j \in 1..Len(faces) : j # i => faces[j] \in Range(after)

\* a face matched in this frame although another tracked face was within
\* the threshold of the detection too, and a third face at the threshold
\* exactly
AssignedToClosestWitness ==
    /\ pc = "sweep"
    /\ \E i, j, k \in 1..Len(active_faces) :
        /\ i # j
        /\ active_faces[i].data.exit_time = current_time
        /\ active_faces[i].data.entry_time < current_time
        /\ active_faces[j].data.exit_time < current_time
        /\ Dist2(active_faces[i].data.last_centroid, active_faces[j].data.last_centroid)
             < STABILITY_THRESHOLD * STABILITY_THRESHOLD
        /\ Dist2(active_faces[i].data.last_centroid, active_faces[k].data.last_centroid)
             = STABILITY_THRESHOLD * STABILITY_THRESHOLD

\* ---------------------------------------------------------------- C10
\* C10: the update of a matched face changes exit_time, last_centroid and
\* the three windows only, one observation appended to each; entry_time and
\* initial_centroid are after the update what they were before, however
\* often the face was matched before.
UpdateKeepsOrigin ==
    \A l \in LoopStates : \A d \in Unfiltered :
        LET box == ClampBox(d.box)
            closest == ClosestFace(l.st.faces, Centroid(box))
            old == DictGet(l.st.faces, closest)
            new == DictGet(ProcessDetection(l.st, d, l.now).faces, box)
        IN  closest # None =>
              /\ new.entry_time = old.entry_time
              /\ new.initial_centroid = old.initial_centroid
              /\ new.exit_time = l.st.clock
              /\ new.last_centroid = Centroid(box)
              /\ AppendedTo(old.age_queue, d.face[1], new.age_queue)
              /\ AppendedTo(old.gender_queue, d.face[2], new.gender_queue)
              /\ AppendedTo(old.emotion_queue, d.face[3], new.emotion_queue)

\* a face matched in this frame and matched before, away from where it was
\* first seen
UpdateKeepsOriginWitness ==
    /\ pc = "sweep"
    /\ \E i \in 1..Len(active_faces) :
        /\ active_faces[i].data.exit_time = current_time
        /\ Len(active_faces[i].data.age_queue) >= 3
        /\ active_faces[i].data.last_centroid # active_faces[i].data.initial_centroid

\* ---------------------------------------------------------------- C5
\* C5: a tracked face whose duration is below the minimum never produces a
\* record, and one whose displacement is above the stability threshold
\* never produces a record; a record is produced only when both duration
\* >= 1.5 s and displacement <= 80 px hold. The sweep appends one record for
\* each face it removes that satisfies both, and no other record.
RecordOnlyIfEngaged ==
    [][pc = "sweep" =>
         LET gone == {i \in 1..Len(active_faces) : active_faces[i] \notin Range(active_faces')}
             engaged == {i \in gone : Engaged(active_faces[i].data)}
         IN  /\ Len(final_records') = Len(final_records) + Cardinality(engaged)
             /\ SubSeq(final_records', 1, Len(final_records)) = final_records
             /\ \A k \in (Len(final_records) + 1)..Len(final_records') :
                  \E i \in engaged : RecordOf(final_records'[k], active_faces[i].data)]_vars

\* a face about to be evaluated that stayed long enough and moved too far,
\* after a face that was evaluated and produced a record
RecordOnlyIfEngagedWitness ==
    /\ pc = "sweep"
    /\ \E i \in 1..Len(active_faces) :
        /\ current_time - active_faces[i].data.exit_time > EXPIRY_TIMEOUT
        /\ Duration(active_faces[i].data) >= ENGAGEMENT_THRESHOLD
        /\ Displacement2(active_faces[i].data) > STABILITY_THRESHOLD * STABILITY_THRESHOLD

\* ---------------------------------------------------------------- C9
\* C9: in every frame the sweep removes exactly the tracked faces that were
\* not matched in the frame (their key is not in updated_ids) and
\* were last seen more than 5 s before the frame; every other face stays as
\* it is, and every removed face is evaluated: if it is engaged, its record
\* is appended to final_records.
Stale(entry) ==
    /\ entry.fid \notin Range(updated_ids)
    /\ current_time - entry.data.exit_time > EXPIRY_TIMEOUT

SweepRemovesStale ==
    [][pc = "sweep" =>
         /\ active_faces' = SelectSeq(active_faces, LAMBDA e : ~Stale(e))
         /\ \A i \in 1..Len(active_faces) :
              Stale(active_faces[i]) /\ Engaged(active_faces[i].data) =>
                 \E k \in (Len(final_records) + 1)..Len(final_records') :
                    RecordOf(final_records'[k], active_faces[i].data)]_vars

\* after a sweep: a face last seen exactly 5 s before the frame is still
\* tracked, and a face the sweep removed has left its record
SweepRemovesStaleWitness ==
    /\ pc = "save"
    /\ final_records # <<>>
    /\ \E i \in 1..Len(active_faces) :
        current_time - active_faces[i].data.exit_time = EXPIRY_TIMEOUT

\* ---------------------------------------------------------------- C6
\* C6: each of the three windows of a tracked face holds at most
\* TRACKING_WINDOW observations, and a face matched with a full window has
\* afterwards the window without its oldest observation and with one new
\* observation at the end.
Windows == {"age_queue", "gender_queue", "emotion_queue"}

WindowBounded ==
    [][/\ \A j \in 1..Len(active_faces') :
            \A f \in Windows : Len(active_faces'[j].data[f]) <= TRACKING_WINDOW
       /\ \A i \in 1..Len(active_faces), j \in 1..Len(active_faces') :
            LET old == active_faces[i].data
                new == active_faces'[j].data
            IN  /\ SameIdentity(old, new)
                /\ new.exit_time > old.exit_time
                /\ Len(old.age_queue) = TRACKING_WINDOW
                => \A f \in Windows :
                      /\ Len(new[f]) = TRACKING_WINDOW
                      /\ SubSeq(new[f], 1, TRACKING_WINDOW - 1)
                           = SubSeq(old[f], 2, TRACKING_WINDOW)]_vars

\* a face seen in sixteen frames or more, its windows full
WindowBoundedWitness ==
    \E i \in 1..Len(active_faces) :
        /\ Len(active_faces[i].data.age_queue) = TRACKING_WINDOW
        /\ active_faces[i].data.exit_time - active_faces[i].data.entry_time >= TRACKING_WINDOW

\* ---------------------------------------------------------------- C11
\* C11: save_engagement_data empties final_records only after the write of
\* the combined document has completed. Whenever a flush changes the
\* buffer, the buffer is empty afterwards and the file holds the document
\* the flush computed; a flush whose write was not attempted or failed
\* leaves the buffer as it was.
ClearedOnlyAfterWrite ==
    [][FlushDue /\ final_records' # final_records =>
         /\ final_records' = <<>>
         /\ file' = OutputData(file, active_faces, final_records)]_vars

\* a flush has written and cleared the buffer, and a later flush whose
\* write failed part way has left its record in the buffer
ClearedOnlyAfterWriteWitness ==
    /\ pc = "finally"
    /\ last_save_time > StartTime
    /\ file.kind = "garbage"
    /\ final_records # <<>>

\* ---------------------------------------------------------------- C12
\* C12: when the write of a flush fails, the pending buffer holds afterwards
\* every record it held before, and a next flush of the process follows to
\* write them: the process has not terminated with them.
FailedWriteRetried ==
    [][/\ FlushDue
       /\ final_records # <<>>
       /\ file' # OutputData(file, active_faces, final_records)
       => /\ final_records' = final_records
          /\ pc' # "done"]_vars

\* ---------------------------------------------------------------- C13
\* C13: a reader of the log file that runs beside a flush observes a
\* complete document, the one before the flush or the one after it, never
\* an empty, truncated or partly written file.
ReaderSeesDocument ==
    reader # Nothing => reader.kind = "doc"

\* ---------------------------------------------------------------- C14
\* C14: whatever the log file held before (no file, not JSON, JSON without
\* the keys audience and count, an audience that is not a list of record
\* objects), a flush takes the log for empty, does not raise, and writes a
\* well-formed document that holds exactly the pending records.
DamagedLogTakenForEmpty ==
    [][FlushDue /\ file.kind # "doc" =>
         /\ file'.kind = "doc"
         /\ file'.audience = final_records
         /\ file'.count = Len(final_records)
         /\ final_records' = <<>>
         /\ pc' \in {"key", "done"}]_vars

\* ---------------------------------------------------------------- C15
\* the positions of the per-frame loop
InLoop == {"capture", "sweep", "save", "key"}

\* C15: every way the per-frame loop ends is followed by one final flush
\* before the process terminates, and after that flush no evaluated record
\* is left in the pending buffer only.
FinalFlushOnExit ==
    [][/\ (pc \in InLoop /\ pc' \notin InLoop) => pc' = "finally"
       /\ pc = "finally" => (pc' = "done" /\ final_records' = <<>>)]_vars

\* ---------------------------------------------------------------- C16
\* C16: a failure to acquire a frame is the only error that ends the
\* per-frame loop. The loop is left after cap.read() or at the ESC key and
\* nowhere else: the detections of a frame, the sweep and the periodic
\* flush, whatever fails in them, are followed by the next step of the loop.
OnlyCaptureFailureEndsLoop ==
    [][(pc \in InLoop /\ pc' \notin InLoop) => pc \in {"capture", "key"}]_vars

\* ---------------------------------------------------------------- C17
\* C17: the gender of every finalized record is the time-weighted vote over
\* the gender window of its face. Every record the sweep appends is the
\* record of a face the sweep removed, with the vote of that face's window
\* as its gender.
RecordGenderIsWeightedVote ==
    [][pc = "sweep" =>
         \A k \in (Len(final_records) + 1)..Len(final_records') :
            \E i \in 1..Len(active_faces) :
               /\ active_faces[i] \notin Range(active_faces')
               /\ RecordOf(final_records'[k], active_faces[i].data)
               /\ final_records'[k].gender
                    = WeightedGenderVote(active_faces[i].data.gender_queue)]_vars

\* ---------------------------------------------------------------- C18
\* the weights of the claim, each times num - 1 to keep them whole: from
\* num - 1 for the oldest observation to 2 * (num - 1) for the newest (1 for
\* the only observation of a window of one)
RECURSIVE ExactScore(_, _, _)
ExactScore(gender_queue, gender, i) ==
    IF i > Len(gender_queue) THEN 0
    ELSE ExactScore(gender_queue, gender, i + 1)
         + (IF gender_queue[i] # gender THEN 0
            ELSE IF Len(gender_queue) = 1 THEN 1
            ELSE Len(gender_queue) - 1 + (i - 1))

\* C18: for every non-empty gender window weighted_gender_vote returns "F"
\* exactly when the sum of the linear weights of the "F" observations is
\* strictly greater than the sum of those of the "M" observations, and "M"
\* otherwise.
VoteIsExactComparison ==
    (returned # Nothing /\ called.arg # <<>>) =>
        returned.value = IF ExactScore(called.arg, "F", 1) > ExactScore(called.arg, "M", 1)
                         THEN "F" ELSE "M"

\* ---------------------------------------------------------------- C19
\* round(k / 10) as Python rounds: to the nearest whole number, a half to
\* the even one
RoundTenth(k) ==
    LET whole == k \div 10
        rest == k % 10
    IN  IF rest > 5 \/ (rest = 5 /\ whole % 2 = 1) THEN whole + 1 ELSE whole

\* C19: the engagement_score of a finalized record is
\* min(100, round(duration / 10 * 100)) of the dwell time in seconds, for
\* every duration, also where duration * 10 is not a whole number; the
\* duration is called.arg hundredths of a second here, so duration / 10 * 100
\* is called.arg / 10.
ScoreIsRounded ==
    returned # Nothing => returned.value = Min(100, RoundTenth(called.arg))

\* ---------------------------------------------------------------- C20
\* every record made so far: those still buffered and those in the log
RecordsMade == LoadExistingEngagementData(file) \o final_records

\* C20: a face that enters at t = 0 centred at (100, 100), is detected
\* again every 0.5 s while it drifts to (120, 110) at t = 2.0 s and is then
\* not seen again yields exactly one engagement record, with duration 2.0 s
\* and engagement_score 20: there is never more than one record, none with
\* another duration or score, and there is one as soon as the loop has
\* swept a frame read more than the expiry timeout after t = 2.0 s.
OneRecordOfTwoSeconds ==
    /\ Len(RecordsMade) <= 1
    /\ \A i \in 1..Len(RecordsMade) :
          /\ RecordsMade[i].duration = 2 * TENTHS_PER_SECOND
          /\ RecordsMade[i].engagement_score = 20
    /\ (current_time - SceneLeft > EXPIRY_TIMEOUT /\ pc # "sweep")
          => Len(RecordsMade) = 1

\* the sweep has just made the record of the visitor
OneRecordOfTwoSecondsWitness ==
    /\ pc = "save"
    /\ current_time - SceneLeft > EXPIRY_TIMEOUT
    /\ active_faces = <<>>
    /\ Len(final_records) = 1
    /\ final_records[1].duration = 2 * TENTHS_PER_SECOND
    /\ final_records[1].engagement_score = 20

\* ---------------------------------------------------------------- C21
\* every observation in the window q is v
AllAre(q, v) == \A i \in 1..Len(q) : q[i] = v

\* the store holds exactly two identities, one whose age observations are
\* all 30 and one whose age observations are all 40
ThirtyAndForty ==
    /\ Len(active_faces) = 2
    /\ \E i, j \in 1..2 :
          /\ i # j
          /\ AllAre(active_faces[i].data.age_queue, 30)
          /\ AllAre(active_faces[j].data.age_queue, 40)

\* C21: a flush that finds exactly two active identities, one observed at
\* age 30 only and one at age 40 only, writes a live snapshot whose age is
\* 35.0, whatever the lengths of the two windows.
SnapshotAgeIsMeanOfIdentities ==
    [][FlushDue /\ ThirtyAndForty =>
          /\ file'.audience_present
          /\ file'.current_audience[1].age = Frac(35, 1)]_vars

\* ---------------------------------------------------------------- C22
\* C22: in every document a flush writes, audience_present is true exactly
\* when the store of tracked identities is non-empty at the flush, the
\* current_audience object is there exactly when audience_present is true,
\* and its count is the number of identities in the store.
SnapshotPresentIffTracked ==
    [][FlushDue =>
          /\ file'.kind = "doc"
          /\ file'.audience_present <=> active_faces # <<>>
          /\ Len(file'.current_audience) = 1 <=> file'.audience_present
          /\ \A i \in 1..Len(file'.current_audience) :
                file'.current_audience[i].count = Len(active_faces)]_vars

\* a periodic flush has just written the snapshot of two identities
SnapshotPresentIffTrackedWitness ==
    /\ pc = "key"
    /\ last_save_time = current_time
    /\ Len(active_faces) = 2
    /\ file.audience_present
    /\ file.current_audience[1].count = 2

\* ---------------------------------------------------------------- C23
\* the window after holds the window before and then v, within its capacity
Contributed(before, v, after) == after = DequeAppend(before, v)

\* C23: a detection whose classification fails is not dropped: the frame
\* ends with an identity under the detection's rectangle, seen in this
\* frame, whose exit_time and last_centroid are those of the detection and
\* whose windows got age 0, gender "Unknown" and emotion "Neutral"; it is
\* the identity tracked before, with its entry_time and earlier
\* observations, or a new one when none was tracked.
FailedClassificationStillTracked ==
    [][BlindFrame =>
          /\ Len(active_faces') = 1
          /\ updated_ids' = <<active_faces'[1].fid>>
          /\ LET fid == active_faces'[1].fid
                 data == active_faces'[1].data
                 old == IF active_faces = <<>>
                        THEN [entry_time |-> current_time', age_queue |-> <<>>,
                              gender_queue |-> <<>>, emotion_queue |-> <<>>,
                              initial_centroid |-> Centroid(fid)]
                        ELSE active_faces[1].data
             IN  /\ fid \in BlindFaces
                 /\ data.exit_time = current_time'
                 /\ data.last_centroid = Centroid(fid)
                 /\ data.entry_time = old.entry_time
                 /\ data.initial_centroid = old.initial_centroid
                 /\ Contributed(old.age_queue, 0, data.age_queue)
                 /\ Contributed(old.gender_queue, "Unknown", data.gender_queue)
                 /\ Contributed(old.emotion_queue, "Neutral", data.emotion_queue)]_vars

\* a tracked identity, classified before, was just seen again a step
\* aside by a detection that could not be classified
FailedClassificationStillTrackedWitness ==
    /\ pc = "sweep"
    /\ Len(active_faces) = 1
    /\ active_faces[1].data.gender_queue = <<"M", "Unknown">>
    /\ active_faces[1].data.age_queue = <<30, 0>>
    /\ active_faces[1].data.exit_time = current_time
    /\ active_faces[1].data.entry_time < current_time
    /\ active_faces[1].data.last_centroid # active_faces[1].data.initial_centroid

\* ---------------------------------------------------------------- C24
\* C24: a detection whose width or height is below 20 px, whose area is
\* below 2000 px^2 or whose top edge lies in the top 10% of the frame leaves
\* the store of tracked identities as it was: it creates no identity,
\* changes no identity's exit_time, centroid or windows, and is not
\* counted among the identities seen in the frame; the sweep of that frame
\* removes every identity whose last detection is older than the expiry
\* timeout, however close to it the detection was.
SmallFaceIgnored ==
    [][/\ SmallFaceFrame =>
             /\ active_faces' = active_faces
             /\ updated_ids' = <<>>
       /\ (Sweep /\ updated_ids = <<>>) =>
             \A i \in 1..Len(active_faces') :
                current_time - active_faces'[i].data.exit_time <= EXPIRY_TIMEOUT]_vars

\* a frame whose detection was below the limits has been read while an
\* identity was tracked, long enough after its last detection for it to
\* expire
SmallFaceIgnoredWitness ==
    /\ pc = "sweep"
    /\ updated_ids = <<>>
    /\ Len(active_faces) = 1
    /\ current_time - active_faces[1].data.exit_time > EXPIRY_TIMEOUT

\* ---------------------------------------------------------------- C25
\* C25: every finalized record, buffered or written to the log, has gender
\* "M" or "F", an emotion among the six classes and a whole engagement_score
\* from 0 to 100, whatever was observed of the face, classification
\* failures included.
RecordFieldsInRange ==
    \A i \in 1..Len(RecordsMade) :
        /\ RecordsMade[i].gender \in {"M", "F"}
        /\ RecordsMade[i].emotion \in emotion_classes
        /\ RecordsMade[i].engagement_score \in 0..100

\* ---------------------------------------------------------------- C26
\* the sequence p is the beginning of the sequence q
IsPrefix(p, q) == Len(p) <= Len(q) /\ SubSeq(q, 1, Len(p)) = p

\* C26: for every flush that finds a well-formed log, the records of the
\* log before the flush are the beginning of the records of the log after
\* it: persisted records are never removed, reordered or changed, only
\* appended to.
LogOnlyAppended ==
    [][(FlushDue /\ file.kind = "doc") =>
          IsPrefix(file.audience, LoadExistingEngagementData(file'))]_vars

\* ---------------------------------------------------------------- C28
\* C28: every tracked identity has exit_time >= entry_time, in every
\* reachable state, the readings of the clock never decreasing.
ExitNotBeforeEntry ==
    \A i \in 1..Len(active_faces) :
        active_faces[i].data.exit_time >= active_faces[i].data.entry_time

\* an identity seen again in a later frame, its exit_time read from the
\* clock after process_face took its time
ExitNotBeforeEntryWitness ==
    /\ pc = "sweep"
    /\ \E i \in 1..Len(active_faces) :
          /\ active_faces[i].data.entry_time < current_time
          /\ active_faces[i].data.exit_time > current_time

\* ---------------------------------------------------------------- C29
\* the advertisements whose gender and age group are those of the audience
ExactMatches(all_ads, audience_context) ==
    {ad \in Range(all_ads) : /\ ad.gender = audience_context.gender
                             /\ ad.age_group = audience_context.age_group}

\* C29: when an audience is present and at least one advertisement has the
\* audience's gender and the audience's age group, select_optimal_content
\* returns one of the advertisements that have both, whatever the scores of
\* the display history and whatever the random draw.
SelectsExactMatch ==
    (/\ called # Nothing
     /\ called.fn = "select_optimal_content"
     /\ returned # Nothing
     /\ called.arg.audience_context.audience_present
     /\ ExactMatches(called.arg.all_ads, called.arg.audience_context) # {})
        => /\ returned.kind = "value"
           /\ returned.value \in ExactMatches(called.arg.all_ads,
                                              called.arg.audience_context)

\* with more than three exact matches and one of them displayed before,
\* an exact match that is not the first of the repository was returned
SelectsExactMatchWitness ==
    /\ called # Nothing
    /\ called.fn = "select_optimal_content"
    /\ returned # Nothing
    /\ returned.kind = "value"
    /\ called.arg.audience_context.audience_present
    /\ Cardinality(ExactMatches(called.arg.all_ads, called.arg.audience_context)) > 3
    /\ returned.value.ad_id = 6
    /\ ad_scores[1] > 0

KthSmallest(q, k) ==
    CHOOSE v \in Range(q) :
        /\ Cardinality({i \in 1..Len(q) : q[i] < v}) < k
        /\ Cardinality({i \in 1..Len(q) : q[i] <= v}) >= k

\* the fraction m is the median of the window q: its middle observation, or
\* half the sum of its two middle observations
IsMedianOf(m, q) ==
    LET n == Len(q)
    IN  IF n % 2 = 1
        THEN m[1] = m[2] * KthSmallest(q, (n + 1) \div 2)
        ELSE 2 * m[1] = m[2] * (KthSmallest(q, n \div 2) + KthSmallest(q, n \div 2 + 1))

\* C31: the age of every finalized record is the median of the age window
\* its face had when it expired, the mean of the two middle values for a
\* window of even length. Every record the sweep appends is the record of a
\* face the sweep removed, with the median of that face's ages as its age.
RecordAgeIsMedian ==
    [][pc = "sweep" =>
         \A k \in (Len(final_records) + 1)..Len(final_records') :
            \E i \in 1..Len(active_faces) :
               /\ active_faces[i] \notin Range(active_faces')
               /\ RecordOf(final_records'[k], active_faces[i].data)
               /\ IsMedianOf(final_records'[k].age, active_faces[i].data.age_queue)]_vars

\* a face seen twice, classified once and once not, has expired: its ages
\* are 0 and 30 and its record says 15
RecordAgeIsMedianWitness ==
    /\ pc = "save"
    /\ \E k \in 1..Len(final_records) :
        /\ final_records[k].age = <<15, 1>>
        /\ final_records[k].duration = 15

\* ---------------------------------------------------------------- C32
\* the steps of one iteration follow one another: a frame is followed by its
\* sweep and the sweep by the decision to flush, and the log is written by
\* no step but a flush
StepsInOrder ==
    /\ (pc = "capture" /\ pc' # "finally") => pc' = "sweep"
    /\ pc = "sweep" => pc' = "save"
    /\ file' # file => FlushDue

\* the pending record r was made by the sweep of the frame being flushed:
\* at the frame before, whichever it was, its face had not expired yet
FinalizedByThisSweep(r) ==
    \A gap \in SlowGaps :
        current_time - gap - r.exit * TENTHS_PER_SECOND <= EXPIRY_TIMEOUT

\* a periodic flush that completes writes the records of its frame's sweep
FlushHasSweptRecords ==
    (pc = "save" /\ FlushDue /\ pc' = "key") =>
        \A k \in 1..Len(final_records) :
            FinalizedByThisSweep(final_records[k]) =>
                \E j \in 1..Len(file'.audience) : file'.audience[j] = final_records[k]

\* a periodic flush that completes counts in its snapshot the faces the
\* sweep has left in the store, none of them expired
SnapshotExcludesSwept ==
    (pc = "save" /\ FlushDue /\ pc' = "key") =>
        /\ Expired(active_faces, updated_ids, current_time) = <<>>
        /\ IF active_faces = <<>> THEN file'.current_audience = <<>>
           ELSE /\ Len(file'.current_audience) = 1
                /\ file'.current_audience[1].count = Len(active_faces)

\* C32: in one iteration the detections are matched and updated, then the
\* expiry sweep runs, then the flush if it is due, and no flush starts
\* before the sweep has ended; so the flush of a frame writes the records
\* its sweep has finalized and its snapshot leaves out the identities the
\* sweep has removed.
FlushFollowsSweep ==
    [][StepsInOrder /\ FlushHasSweptRecords /\ SnapshotExcludesSwept]_vars

\* ---------------------------------------------------------------- C33
\* the faces of the store that are no longer in it after the step
Removed == {i \in 1..Len(active_faces) : active_faces[i] \notin Range(active_faces')}

\* two tracked faces whose records cannot be told apart by their times
SameTimes(a, b) ==
    /\ FormatTime(a.entry_time) = FormatTime(b.entry_time)
    /\ FormatTime(a.exit_time) = FormatTime(b.exit_time)
    /\ Duration(a) = Duration(b)

\* the places of the records the step appends to the pending buffer
Appended == (Len(final_records) + 1)..Len(final_records')

FrameComesAfter(e) ==
    \E gap \in FrameGaps : e + EXPIRY_TIMEOUT + gap <= StartTime + LiveMaxTime

\* the store holds a face for which frames keep being processed
AwaitsSweep ==
    \E i \in 1..Len(active_faces) : FrameComesAfter(active_faces[i].data.exit_time)

\* C34: if frames keep being processed, an identity that is not matched
\* again is removed from the store in the end, by the sweep of the first
\* frame processed more than 5 s after its exit_time; and a flush that
\* finds the store empty writes audience_present = false and no
\* current_audience. Every face in the store is matched again, at a time
\* after which frames do not go on for long enough, or removed, or the loop
\* is left; after a sweep the store holds no face last seen more than 5 s
\* ago.
StaleRemovedThenAbsent ==
    /\ AwaitsSweep ~> (~AwaitsSweep \/ pc \in {"finally", "done"})
    /\ [](pc \in {"save", "key"} =>
            \A i \in 1..Len(active_faces) :
               current_time - active_faces[i].data.exit_time <= EXPIRY_TIMEOUT)
    /\ [][(FlushDue /\ active_faces = <<>>) =>
            /\ file'.kind = "doc"
            /\ ~file'.audience_present
            /\ file'.current_audience = <<>>]_vars

\* both visitors were seen, were shown as the audience by a flush and have
\* been removed; the flush after the sweep has written that nobody is there
StaleRemovedThenAbsentWitness ==
    /\ pc = "key"
    /\ active_faces = <<>>
    /\ last_save_time = current_time
    /\ Len(file.audience) = 2
    /\ ~file.audience_present
    /\ file.current_audience = <<>>

\* ---------------------------------------------------------------- C35
\* C35: the identities still in the store when the loop ends are never
\* evaluated. The final flush leaves them in the store and appends no
\* record: it writes the records of the log and the pending ones and no
\* other, and its document has audience_present = true and counts the
\* identities of the store as the current audience; nothing happens to
\* them afterwards.
LeftoverNeverEvaluated ==
    [][(pc \in {"finally", "done"} /\ active_faces # <<>>) =>
         /\ active_faces' = active_faces
         /\ final_records' \in {final_records, <<>>}
         /\ pc = "finally" =>
              /\ file'.audience = CombinedRecords(LoadExistingEngagementData(file),
                                                  final_records)
              /\ file'.audience_present
              /\ Len(file'.current_audience) = 1
              /\ file'.current_audience[1].count = Len(active_faces)]_vars

\* the loop was left while a visitor seen for a second and a half, without
\* moving, was before the camera: the final flush has written a log with
\* no record and with the visitor as the current audience
LeftoverNeverEvaluatedWitness ==
    /\ pc = "done"
    /\ Len(active_faces) = 1
    /\ Engaged(active_faces[1].data)
    /\ file.kind = "doc"
    /\ file.audience = <<>>
    /\ file.audience_present
    /\ file.current_audience # <<>>

\* ---------------------------------------------------------------- C36
\* the three windows of a tracked face are equally long and not empty
WindowsAligned(data) ==
    /\ Len(data.age_queue) = Len(data.gender_queue)
    /\ Len(data.gender_queue) = Len(data.emotion_queue)
    /\ Len(data.age_queue) >= 1

\* a face as it is when it has just been created
JustCreated(data) ==
    /\ Len(data.age_queue) = 1
    /\ Len(data.gender_queue) = 1
    /\ Len(data.emotion_queue) = 1
    /\ data.entry_time = data.exit_time
    /\ data.initial_centroid = data.last_centroid

\* C36: in every reachable state the age, gender and emotion windows of
\* every tracked identity have the same length, at least 1; and an identity
\* that a step has created, one that was not in the store before it, has
\* one observation in each window, entry_time = exit_time and
\* initial_centroid = last_centroid.
WindowsAlignedFromCreation ==
    /\ [](\A i \in 1..Len(active_faces) : WindowsAligned(active_faces[i].data))
    /\ [][\A j \in 1..Len(active_faces') :
            (\A i \in 1..Len(active_faces) :
                ~SameIdentity(active_faces[i].data, active_faces'[j].data))
               => JustCreated(active_faces'[j].data)]_vars

\* a second visitor has just been created beside one seen three times
WindowsAlignedFromCreationWitness ==
    /\ pc = "sweep"
    /\ Len(active_faces) = 2
    /\ Len(active_faces[1].data.age_queue) = 3
    /\ active_faces[1].data.initial_centroid # active_faces[1].data.last_centroid
    /\ active_faces[2].data.entry_time = current_time
    /\ JustCreated(active_faces[2].data)

\* ---------------------------------------------------------------- C37
\* C37: in every document a flush writes, count is the number of records
\* of the audience list. Whenever a step leaves a new document in the log,
\* the two agree.
CountIsNumberOfRecords ==
    [][(file' # file /\ file'.kind = "doc") =>
          file'.count = Len(file'.audience)]_vars

\* a periodic flush has added the record of a visitor to a log that held
\* one record
CountIsNumberOfRecordsWitness ==
    /\ pc = "key"
    /\ last_save_time = current_time
    /\ file.kind = "doc"
    /\ Len(file.audience) = 2
    /\ file.audience[1] = OldRecord
    /\ file.count = 2

\* ---------------------------------------------------------------- C38
\* the audience file is missing, is not JSON or is no JSON object
BadAudienceFile == file.kind \in {"missing", "garbage", "not_object"}

\* C38: a call of get_audience_context that finds the audience file
\* missing, not parseable as JSON or not a JSON object returns the default
\* context, with audience_present false, and not the audience data read
\* before
DefaultOnBadFile ==
    [][(GetAudienceContext /\ BadAudienceFile)
          => returned' = Value(DefaultAudienceContext)]_vars

====
